---- MODULE Spec2Model ----
(***************************************************************************)
(* A model of the r_klipp control core:                                    *)
(*   - the pipelined stepper controller (crates/mcu-drivers/stepper.rs),   *)
(*   - the motion planner's step expansion (crates/motion/src/planner.rs), *)
(*   - the safety supervisor and the heater task                           *)
(*     (crates/klipper-mcu-firmware/src/safety.rs, heater.rs),             *)
(*   - the Klipper protocol parser (crates/klipper-proto/src/parser.rs),   *)
(*   - the framed codec and the command registry of the host protocol      *)
(*     (crates/klipper-proto/src/codec.rs, registry.rs).                   *)
(* Each subsystem has its own specification over the shared variables:     *)
(*   Spec          producer enqueues, start() and timer interrupts         *)
(*   SpecPipeline  plan_move; finalize; generate_steps; start; interrupts  *)
(*   SpecSafety    the SafetyMonitor operations under a clock              *)
(*   SpecHeater    heater_task's loop with the monitor it consults         *)
(*   SpecPlanner   plan_move, finalize and generate_steps in any order     *)
(*   SpecQueueFull plan_move alone, move_queue never drained               *)
(*   SpecFeed      the planner feeding the step queue the interrupt drains *)
(*   SpecParser    received bytes and the caller's parse loop              *)
(*   SpecCodec     encode and decode calls on one buffer                   *)
(*   SpecRegistry  any sequence of CommandRegistry::add calls              *)
(*   SpecShaper    plan_move; finalize; a shaper attached; generate_steps  *)
(*   SpecPid       a PidController made and updated directly               *)
(*   SpecPositions the controller with counters at the i32 bounds          *)
(*   SpecRunaway   periodic thermal checks of a heater that keeps heating  *)
(***************************************************************************)
EXTENDS Integers, Sequences, FiniteSets, TLC

VARIABLES
    \* --- StepperController and its hardware (stepper.rs) ---
    command_queue,       \* the SPSC queue between producer and controller
    positions,           \* StepperController.positions
    current_directions,  \* StepperController.current_directions
    next_command,        \* StepperController.next_command: <<>> is None, <<c>> is Some(c)
    step_port,           \* MockAtomicGpioPort.state of the step port
    dir_port,            \* MockAtomicGpioPort.state of the direction port
    timer,               \* MockTimer
    \* --- history of the stepper (not program state) ---
    enqueued,            \* commands successfully enqueued, in order
    dequeued,            \* ids of the commands the controller dequeued, in order
    pulses,              \* one record per step pulse emitted, in order
    last_call,           \* the last controller call and the hardware events it made
    starts,              \* number of start() calls so far
    \* --- MotionPlanner (planner.rs) and the driver of the pipeline ---
    move_queue,
    lookahead_queue,
    current_position,
    planned,             \* the pipeline's move: current_position before, and the target
    pipe_pc,             \* position of the pipeline driver
    gen_result,          \* result of the last generate_steps call
    placed,              \* history: number of segments plan_move pushed to the lookahead
    expanded,            \* history: ids of the segments generate_steps dequeued, in order
    plan_call,           \* history: the last planner call and what it returned
    \* --- SafetyMonitor, the clock and heater_task (safety.rs, heater.rs) ---
    now,                 \* Instant::now(), in milliseconds
    emergency_stop_active,
    thermal_monitors,    \* per heater: [last_temp, last_check_time]
    last_check_in,       \* per task
    safety_call,         \* history: the last SafetyMonitor call and what it returned
    last_check,          \* history: per heater, the last ThermalMonitor::check call
    target_temp,         \* HeaterSharedState.target_temp (degrees Celsius)
    current_temp,        \* HeaterSharedState.current_temp (degrees Celsius)
    pid,                 \* PidController state: [integral, prev_error]
    pwm_duty,            \* the duty last written with pwm.set_duty
    heater_pc,           \* "ready" at the top of the loop, "waiting" in ticker.next()
    heater_log,          \* what the last loop iteration saw and wrote
    \* --- the receive path of the Klipper protocol (klipper-proto parser.rs) ---
    rx_buffer,           \* the bytes the caller of Parser::parse holds
    rx_input,            \* history: how the received bytes were made up
    parse_log,           \* history: what each Parser::parse call returned, in order
    \* --- the framed codec of the host protocol (klipper-proto codec.rs) ---
    codec_buf,           \* the BytesMut handed to encode and decode
    codec_sent,          \* history: the messages encoded and what was done to the bytes
    codec_log,           \* history: what each KlipperCodec::decode call returned, in order
    \* --- CommandRegistry (klipper-proto registry.rs) ---
    name_to_id,          \* CommandRegistry.name_to_id
    id_to_name,          \* CommandRegistry.id_to_name
    \* --- a PidController driven directly, as heater_tests.rs drives it ---
    pid_call             \* history: the last PidController call and what it returned

stepper_vars == <<command_queue, positions, current_directions, next_command,
                  step_port, dir_port, timer, enqueued, dequeued, pulses,
                  last_call, starts>>
planner_vars == <<move_queue, lookahead_queue, current_position, planned,
                  pipe_pc, gen_result, placed, expanded, plan_call>>
safety_vars  == <<now, emergency_stop_active, thermal_monitors, last_check_in,
                  safety_call, last_check>>
heater_vars  == <<target_temp, current_temp, pid, pwm_duty, heater_pc, heater_log,
                  pid_call>>
planner_vars_but_pc == <<move_queue, lookahead_queue, current_position, planned,
                         gen_result, placed, expanded, plan_call>>
parser_vars  == <<rx_buffer, rx_input, parse_log>>
codec_vars   == <<codec_buf, codec_sent, codec_log>>
registry_vars == <<name_to_id, id_to_name>>
proto_vars   == <<parser_vars, codec_vars, registry_vars>>
vars == <<stepper_vars, planner_vars, safety_vars, heater_vars, proto_vars>>

(***************************************************************************)
(* Bounds of the model                                                     *)
(***************************************************************************)
MaxEnqueued == 3        \* commands the producer enqueues in a run of Spec
MaxStarts == 2          \* start() calls in a run of Spec
MaxDelta == 4           \* largest per-axis step delta of the pipeline's move
MaxPlaced == 66         \* segments planned in a run of SpecQueueFull
MaxMoves == 4           \* segments planned in a run of SpecPlanner
MaxDrains == 3          \* finalize and generate_steps calls in a run of SpecPlanner
MaxLongMoves == 7       \* segments planned in a run of SpecFeed
LongMoveSteps == 40     \* X steps of each move of SpecFeed
MaxParses == 3          \* Parser::parse calls in a run of SpecParser
LongPayloadLen == 24    \* payload bytes of the longest frame of SpecParser
MaxTime == 500          \* the clock of SpecSafety stops here (milliseconds)
MaxHeaterTime == 300    \* the clock of SpecHeater stops here (milliseconds)
UpdateFreqHz == 10      \* heater_task's update_freq_hz

(***************************************************************************)
(* Integer helpers                                                         *)
(***************************************************************************)
I32_MAX == 2147483647
I32_MIN == -I32_MAX - 1
U16_MAX == 65535

Max(a, b) == IF a >= b THEN a ELSE b
Min(a, b) == IF a <= b THEN a ELSE b
Abs(a) == IF a < 0 THEN -a ELSE a

RECURSIVE Pow2(_)
Pow2(n) == IF n = 0 THEN 1 ELSE 2 * Pow2(n - 1)

\* bit i of the u8 mask m: (m >> i) & 1
Bit(m, i) == (m \div Pow2(i)) % 2

\* a ^ b on u8
BitXor(a, b) ==
    LET x(i) == IF Bit(a, i) # Bit(b, i) THEN Pow2(i) ELSE 0
    IN x(0) + x(1) + x(2) + x(3) + x(4) + x(5) + x(6) + x(7)

\* a | b on u8
BitOr(a, b) ==
    LET x(i) == IF Bit(a, i) = 1 \/ Bit(b, i) = 1 THEN Pow2(i) ELSE 0
    IN x(0) + x(1) + x(2) + x(3) + x(4) + x(5) + x(6) + x(7)

\* a & !b on u8
BitAndNot(a, b) ==
    LET x(i) == IF Bit(a, i) = 1 /\ Bit(b, i) = 0 THEN Pow2(i) ELSE 0
    IN x(0) + x(1) + x(2) + x(3) + x(4) + x(5) + x(6) + x(7)

\* variant: the counter stops at the i32 bounds
saturating_step(x, d) ==
    IF d = 1 THEN (IF x = I32_MAX THEN I32_MAX ELSE x + 1)
    ELSE (IF x = I32_MIN THEN I32_MIN ELSE x - 1)

wrapping_add(x, d) ==
    IF d = 1 THEN (IF x = I32_MAX THEN I32_MIN ELSE x + 1)
    ELSE (IF x = I32_MIN THEN I32_MAX ELSE x - 1)

IsPrefix(s, t) == Len(s) <= Len(t) /\ \A i \in 1..Len(s) : s[i] = t[i]

(***************************************************************************)
(* StepCommand and the hardware mocks (stepper.rs)                         *)
(***************************************************************************)
\* StepperController::<N>: the number of steppers of the controller
NumSteppers == 3
Steppers == 0..(NumSteppers - 1)

\* Queue<StepCommand, 256>: heapless keeps one slot free
QUEUE_SLOTS == 256
QueueCapacity == QUEUE_SLOTS - 1

\* StepCommand::new; id is the command's index among the enqueued commands
\* (history only: the controller never reads it).
StepCommand(stepper_mask, direction_mask, interval_ticks, id) ==
    [stepper_mask |-> stepper_mask, direction_mask |-> direction_mask,
     interval_ticks |-> interval_ticks, id |-> id]

\* the commands the producer of Spec enqueues
StepperMasks == {1, 2}
DirectionMasks == {0, 1}
Intervals == {0, 1000}

\* MockTimer
schedule_next(t, ticks) ==
    [scheduled_ticks |-> ticks, triggered_now |-> FALSE, stopped |-> FALSE]
trigger_now(t) ==
    [scheduled_ticks |-> t.scheduled_ticks, triggered_now |-> TRUE, stopped |-> FALSE]
stop(t) ==
    [scheduled_ticks |-> t.scheduled_ticks, triggered_now |-> t.triggered_now,
     stopped |-> TRUE]

\* MockAtomicGpioPort
set_and_clear_atomic(state, set_mask, clear_mask) ==
    BitAndNot(BitOr(state, set_mask), clear_mask)

\* hardware events of one controller call, in program order
Event(dev, op, arg) == [dev |-> dev, op |-> op, arg |-> arg]

(***************************************************************************)
(* StepperController                                                       *)
(***************************************************************************)
\* Consumer::dequeue
dequeue(q) ==
    IF q = <<>> THEN [item |-> <<>>, rest |-> q]
    ELSE [item |-> <<Head(q)>>, rest |-> Tail(q)]

\* variant: the direction is cached but never written to the port
prepare_next_command_internal_nowrite(q, dirs, port) ==
    LET d == dequeue(q)
    IN IF d.item # <<>>
       THEN [command_queue |-> d.rest, next_command |-> d.item,
             current_directions |-> d.item[1].direction_mask,
             dir_port |-> port, events |-> <<>>, taken |-> <<d.item[1].id>>]
       ELSE [command_queue |-> q, next_command |-> <<>>,
             current_directions |-> dirs, dir_port |-> port,
             events |-> <<>>, taken |-> <<>>]

\* variant: a second dequeue overwrites the command just fetched
prepare_next_command_internal_skip(q, dirs, port) ==
    LET d0 == dequeue(q)
        d == IF Len(q) >= 2 THEN dequeue(d0.rest) ELSE d0
    IN IF d.item # <<>>
       THEN [command_queue |-> d.rest, next_command |-> d.item,
             current_directions |-> d.item[1].direction_mask,
             dir_port |-> d.item[1].direction_mask,
             events |-> <<Event("dir", "write", d.item[1].direction_mask)>>,
             taken |-> IF Len(q) >= 2 THEN <<d0.item[1].id, d.item[1].id>>
                       ELSE <<d.item[1].id>>]
       ELSE [command_queue |-> q, next_command |-> <<>>,
             current_directions |-> dirs, dir_port |-> port,
             events |-> <<>>, taken |-> <<>>]

\* prepare_next_command_internal: dequeue, set the direction pins, stage.
\* The result holds the fields it changes, the hardware events it made and
\* the ids it dequeued.
prepare_next_command_internal(q, dirs, port) ==
    LET d == dequeue(q)
    IN IF d.item # <<>>
       THEN LET cmd == d.item[1]
                direction_changes == BitXor(dirs, cmd.direction_mask)
            IN [command_queue |-> d.rest,
                next_command |-> <<cmd>>,
                current_directions |->
                    IF direction_changes # 0 THEN cmd.direction_mask ELSE dirs,
                dir_port |->
                    IF direction_changes # 0 THEN cmd.direction_mask ELSE port,
                events |->
                    IF direction_changes # 0
                    THEN <<Event("dir", "write", cmd.direction_mask)>>
                    ELSE <<>>,
                taken |-> <<cmd.id>>]
       ELSE [command_queue |-> q, next_command |-> <<>>,
             current_directions |-> dirs, dir_port |-> port,
             events |-> <<>>, taken |-> <<>>]

\* update_positions
update_positions(pos, stepper_mask, direction_mask) ==
    [i \in Steppers |->
        IF Bit(stepper_mask, i) # 0
        THEN IF Bit(direction_mask, i) # 0
             THEN wrapping_add(pos[i], 1)
             ELSE wrapping_add(pos[i], -1)
        ELSE pos[i]]

\* variant: the interval is always handed to schedule_next
isr_reschedule_always(t, cmd_to_execute) ==
    schedule_next(t, cmd_to_execute.interval_ticks)

\* on_timer_interrupt, step 2: schedule the next interrupt
isr_reschedule(t, cmd_to_execute) ==
    IF cmd_to_execute.interval_ticks > 0
    THEN schedule_next(t, cmd_to_execute.interval_ticks)
    ELSE trigger_now(t)

TimerEvent(cmd_to_execute) ==
    IF cmd_to_execute.interval_ticks > 0
    THEN Event("timer", "schedule_next", cmd_to_execute.interval_ticks)
    ELSE Event("timer", "trigger_now", 0)

\* Producer::enqueue of one command (Err and no change when the queue is full)
Enqueue(stepper_mask, direction_mask, interval_ticks) ==
    /\ Len(enqueued) < MaxEnqueued
    /\ LET cmd == StepCommand(stepper_mask, direction_mask, interval_ticks,
                              Len(enqueued) + 1)
       IN IF Len(command_queue) < QueueCapacity
          THEN /\ command_queue' = Append(command_queue, cmd)
               /\ enqueued' = Append(enqueued, cmd)
          ELSE UNCHANGED <<command_queue, enqueued>>
    /\ UNCHANGED <<positions, current_directions, next_command, step_port,
                   dir_port, timer, dequeued, pulses, last_call, starts>>

\* variant: the first interval is handed to the timer as it is
initial_delay_raw(cmd) == cmd.interval_ticks

\* start: cmd.interval_ticks.max(100), the delay before the very first step
initial_delay(cmd) == Max(cmd.interval_ticks, 100)

\* StepperController::start
start ==
    LET p == prepare_next_command_internal(command_queue, current_directions,
                                           dir_port)
        ticks == IF p.next_command # <<>>
                 THEN initial_delay(p.next_command[1]) ELSE 0
    IN /\ command_queue' = p.command_queue
       /\ next_command' = p.next_command
       /\ current_directions' = p.current_directions
       /\ dir_port' = p.dir_port
       /\ timer' = IF p.next_command # <<>> THEN schedule_next(timer, ticks)
                   ELSE timer
       /\ dequeued' = dequeued \o p.taken
       /\ last_call' = [op |-> "start", executed |-> <<>>,
                        events |-> p.events \o
                            (IF p.next_command # <<>>
                             THEN <<Event("timer", "schedule_next", ticks)>>
                             ELSE <<>>)]
       /\ starts' = starts + 1
       /\ UNCHANGED <<positions, step_port, enqueued, pulses>>

\* variant: an interrupt that finds nothing staged fetches the next command
\* from the queue and schedules it, as start() does
isr_idle_restart ==
    LET p == prepare_next_command_internal(command_queue, current_directions,
                                           dir_port)
    IN /\ command_queue' = p.command_queue
       /\ next_command' = p.next_command
       /\ current_directions' = p.current_directions
       /\ dir_port' = p.dir_port
       /\ timer' = IF p.next_command # <<>>
                   THEN schedule_next(timer, initial_delay(p.next_command[1]))
                   ELSE stop(timer)
       /\ dequeued' = dequeued \o p.taken
       /\ last_call' = [op |-> "isr", executed |-> <<>>, events |-> p.events]
       /\ UNCHANGED <<positions, step_port, enqueued, pulses, starts>>

\* on_timer_interrupt when nothing is staged: the timer is stopped
isr_idle ==
    /\ timer' = stop(timer)
    /\ last_call' = [op |-> "isr", executed |-> <<>>,
                     events |-> <<Event("timer", "stop", 0)>>]
    /\ UNCHANGED <<command_queue, positions, current_directions,
                   next_command, step_port, dir_port, enqueued, dequeued,
                   pulses, starts>>

\* StepperController::on_timer_interrupt
on_timer_interrupt ==
    IF next_command # <<>>
    THEN LET cmd_to_execute == next_command[1]
             t1 == isr_reschedule(timer, cmd_to_execute)
             p == prepare_next_command_internal(command_queue,
                                                current_directions, dir_port)
         IN /\ step_port' = set_and_clear_atomic(step_port,
                                cmd_to_execute.stepper_mask,
                                cmd_to_execute.stepper_mask)
            /\ positions' = update_positions(positions,
                                cmd_to_execute.stepper_mask,
                                cmd_to_execute.direction_mask)
            /\ command_queue' = p.command_queue
            /\ next_command' = p.next_command
            /\ current_directions' = p.current_directions
            /\ dir_port' = p.dir_port
            /\ timer' = IF p.next_command = <<>> THEN stop(t1) ELSE t1
            /\ dequeued' = dequeued \o p.taken
            /\ pulses' = Append(pulses,
                                [cmd |-> cmd_to_execute, dir_port |-> dir_port])
            /\ last_call' =
                   [op |-> "isr", executed |-> <<cmd_to_execute>>,
                    events |-> <<Event("step", "set_and_clear_atomic",
                                       cmd_to_execute.stepper_mask),
                                 TimerEvent(cmd_to_execute)>>
                               \o p.events
                               \o (IF p.next_command = <<>>
                                   THEN <<Event("timer", "stop", 0)>>
                                   ELSE <<>>)]
            /\ UNCHANGED <<enqueued, starts>>
    ELSE isr_idle

\* StepperController::new and the mocks, but for the position counters
StepperIdle ==
    /\ command_queue = <<>>
    /\ current_directions = 0
    /\ next_command = <<>>
    /\ step_port = 0
    /\ dir_port = 0
    /\ timer = [scheduled_ticks |-> 0, triggered_now |-> FALSE, stopped |-> FALSE]
    /\ enqueued = <<>>
    /\ dequeued = <<>>
    /\ pulses = <<>>
    /\ last_call = [op |-> "new", executed |-> <<>>, events |-> <<>>]
    /\ starts = 0

InitStepper ==
    /\ StepperIdle
    /\ positions = [i \in Steppers |-> 0]

(***************************************************************************)
(* MotionPlanner (planner.rs)                                              *)
(*                                                                         *)
(* The planner's f32 quantities are kept as scaled integers: distances in  *)
(* micrometres, the profile velocities start_v, cruise_v, end_v in mm/s,   *)
(* instantaneous velocities in micrometres per second, durations in        *)
(* microseconds; accel in mm/s^2 and jerk in mm/s^3 as given. Divisions    *)
(* round down where f32 would round to nearest.                            *)
(***************************************************************************)
MAX_AXES == 8
CLOCK_FREQ == 100000000
EXTRUDER_AXIS == 3
MOVE_QUEUE_SLOTS == 64
LOOKAHEAD_SLOTS == 8

Axes == 0..(MAX_AXES - 1)
\* Queue<MoveSegment, 64>: heapless keeps one slot free
MoveQueueCapacity == MOVE_QUEUE_SLOTS - 1

\* MotionPlanner::new(steps_per_mm)
steps_per_mm == [i \in Axes |-> 1]

\* the arguments the model passes to plan_move besides the target
MoveParams == [velocity |-> 100, accel |-> 5000, jerk |-> 10000, jd_um |-> 10]

RECURSIVE SqrtSearch(_, _, _)
SqrtSearch(n, lo, hi) ==
    IF lo >= hi THEN lo
    ELSE LET mid == (lo + hi + 1) \div 2
         IN IF mid * mid <= n THEN SqrtSearch(n, mid, hi)
            ELSE SqrtSearch(n, lo, mid - 1)

\* sqrtf, rounded down
ISqrt(n) == IF n <= 0 THEN 0 ELSE SqrtSearch(n, 0, Min(n, 46340))

RECURSIVE SumOver(_, _)
SumOver(f, S) ==
    IF S = {} THEN 0
    ELSE LET i == CHOOSE x \in S : TRUE
         IN f[i] + SumOver(f, S \ {i})

RECURSIVE MaxOver(_, _)
MaxOver(f, S) ==
    IF S = {} THEN 0
    ELSE LET i == CHOOSE x \in S : TRUE
         IN Max(f[i], MaxOver(f, S \ {i}))

\* MoveSegment::get_move_vector_mm: the first MAX_AXES - 1 axes, in micrometres
get_move_vector_mm(seg) ==
    [i \in 0..(MAX_AXES - 2) |-> (seg.steps[i] * 1000) \div steps_per_mm[i]]

\* recalculate_timing
recalculate_timing(s) ==
    LET accel_dist == ((s.cruise_v * s.cruise_v - s.start_v * s.start_v) * 1000)
                          \div (2 * s.accel)
        decel_dist == ((s.cruise_v * s.cruise_v - s.end_v * s.end_v) * 1000)
                          \div (2 * s.accel)
        triangle == accel_dist + decel_dist > s.distance
        cruise_v == IF triangle
                    THEN ISqrt(((2 * s.accel * s.distance) \div 1000
                                + s.start_v * s.start_v + s.end_v * s.end_v) \div 2)
                    ELSE s.cruise_v
        accel_time == (Abs(cruise_v - s.start_v) * 1000000) \div s.accel
        decel_time == (Abs(cruise_v - s.end_v) * 1000000) \div s.accel
        a_over_j == (s.accel * 1000) \div (s.jerk \div 1000)
        t_j1 == Min(accel_time \div 2, a_over_j)
        t_j3 == Min(decel_time \div 2, a_over_j)
    IN [s EXCEPT
          !.cruise_v = cruise_v,
          !.t_c = IF triangle THEN 0
                  ELSE ((s.distance - accel_dist - decel_dist) * 1000) \div s.cruise_v,
          !.t_j1 = t_j1, !.t_a = accel_time - 2 * t_j1, !.t_j2 = t_j1,
          !.t_j3 = t_j3, !.t_d = decel_time - 2 * t_j3, !.t_j4 = t_j3]

\* 0.5 * j * dt * dt, in micrometres per second
JerkTerm(j, dt) == ((((j \div 1000) * dt) \div 1000) * dt) \div 2000

\* get_velocity_and_accel: the velocity at time t, in micrometres per second
get_velocity(s, t) ==
    LET t1 == s.t_j1
        t2 == t1 + s.t_a
        t3 == t2 + s.t_j2
        t4 == t3 + s.t_c
        t5 == t4 + s.t_j3
        t6 == t5 + s.t_d
    IN IF t < t1 THEN s.start_v * 1000 + JerkTerm(s.jerk, t)
       ELSE IF t < t2 THEN s.start_v * 1000 + JerkTerm(s.jerk, t1)
                           + (s.accel * (t - t1)) \div 1000
       ELSE IF t < t3 THEN s.cruise_v * 1000 - JerkTerm(s.jerk, t3 - t)
       ELSE IF t < t4 THEN s.cruise_v * 1000
       ELSE IF t < t5 THEN s.cruise_v * 1000 - JerkTerm(s.jerk, t - t4)
       ELSE IF t < t6 THEN s.cruise_v * 1000 - JerkTerm(s.jerk, s.t_j3)
                           - (s.accel * (t - t5)) \div 1000
       ELSE s.end_v * 1000 + JerkTerm(s.jerk, s.t_j4 - (t - t6))

\* a u32 kept as its two u16 halves
U32(x) == [hi |-> x \div 65536, lo |-> x % 65536]
U32_MAX == [hi |-> U16_MAX, lo |-> U16_MAX]

\* u32::saturating_add, u32::saturating_sub
saturating_add(a, b) ==
    LET lo == a.lo + b.lo
        hi == a.hi + b.hi + lo \div 65536
    IN IF hi > U16_MAX THEN U32_MAX ELSE [hi |-> hi, lo |-> lo % 65536]
saturating_sub(a, b) ==
    IF a.hi < b.hi \/ (a.hi = b.hi /\ a.lo < b.lo) THEN U32(0)
    ELSE IF a.lo >= b.lo THEN [hi |-> a.hi - b.hi, lo |-> a.lo - b.lo]
    ELSE [hi |-> a.hi - b.hi - 1, lo |-> a.lo + 65536 - b.lo]

\* a.cmp(b) on u32: a < b
u32_lt(a, b) == a.hi < b.hi \/ (a.hi = b.hi /\ a.lo < b.lo)

\* if v > 0.0 { (CLOCK_FREQ / v * distance / N) as u32 } else { u32::MAX }:
\* the quotient CLOCK_FREQ / v times distance / N, computed on u16 halves;
\* the cast of a float saturates at u32::MAX
interval_ticks(v, distance, n_steps) ==
    IF v <= 0 THEN U32_MAX
    ELSE LET q == CLOCK_FREQ \div v
             qh == q \div 65536
             ql == q % 65536
             a == distance \div n_steps
             r == distance % n_steps
             A == qh * r
             H == qh * a + A \div n_steps
             L == ql * a + ((A % n_steps) * 65536 + ql * r) \div n_steps
             hi == H + L \div 65536
         IN IF hi > U16_MAX THEN U32_MAX ELSE [hi |-> hi, lo |-> L % 65536]

\* interval as u16: the low 16 bits
interval_ticks_u16(v, distance, n_steps) ==
    interval_ticks(v, distance, n_steps).lo

\* (x as u32) >= n for an i32 x and a u32 n below 2^31: a negative x
\* reinterprets as a value of at least 2^31
u32_ge(x, n) == IF x < 0 THEN TRUE ELSE x >= n

\* variant: the comparison is made on the signed value
bresenham_axis_signed(err, steps_i, dominant_steps) ==
    LET e == err + Abs(steps_i)
    IN IF e * 2 >= dominant_steps
       THEN [pulse |-> TRUE, err |-> e - dominant_steps]
       ELSE [pulse |-> FALSE, err |-> e]

\* bresenham_step, one axis: errors[i] += |steps[i]|; pulse and subtract when
\* (errors[i] * 2) as u32 >= dominant_steps
bresenham_axis(err, steps_i, dominant_steps) ==
    LET e == err + Abs(steps_i)
    IN IF u32_ge(e * 2, dominant_steps)
       THEN [pulse |-> TRUE, err |-> e - dominant_steps]
       ELSE [pulse |-> FALSE, err |-> e]

\* bresenham_step: the new errors and the step mask
bresenham_step(errors, steps, dominant_steps) ==
    LET r == [i \in Axes |->
                 IF i = EXTRUDER_AXIS THEN [pulse |-> FALSE, err |-> errors[i]]
                 ELSE bresenham_axis(errors[i], steps[i], dominant_steps)]
    IN [errors |-> [i \in Axes |-> r[i].err],
        mask |-> SumOver([i \in Axes |-> IF r[i].pulse THEN Pow2(i) ELSE 0], Axes)]

\* the MoveSegment plan_move builds; id (not a field of the program's
\* segment) numbers the segments in the order they were planned
NewSegment(steps, direction_mask, total_steps, distance, p, id) ==
    [id |-> id, steps |-> steps, direction_mask |-> direction_mask,
     total_steps |-> total_steps, junction_deviation |-> p.jd_um,
     distance |-> distance, start_v |-> 0, cruise_v |-> p.velocity, end_v |-> 0,
     accel |-> p.accel, jerk |-> p.jerk,
     t_j1 |-> 0, t_a |-> 0, t_j2 |-> 0, t_c |-> 0, t_j3 |-> 0, t_d |-> 0,
     t_j4 |-> 0,
     shaper |-> <<>>]       \* shaper: None; <<s>> is Some(s)

\* variant: a segment whose enqueue failed is put back at the front
keep_popped(seg, rest) == <<seg>> \o rest

\* the lookahead after move_queue.enqueue(seg) failed: seg was taken with
\* pop_front before the enqueue and is dropped with the error
drop_popped(seg, rest) == rest

\* process_lookahead: the planner after the loop and the result. pl is
\* [move_queue, lookahead_queue, current_position, placed].
RECURSIVE process_lookahead(_)
process_lookahead(pl) ==
    IF Len(pl.lookahead_queue) < 2 THEN [pl |-> pl, result |-> "Ok"]
    ELSE
    LET seg1 == pl.lookahead_queue[1]
        seg2 == pl.lookahead_queue[2]
        v1 == get_move_vector_mm(seg1)
        v2 == get_move_vector_mm(seg2)
        D == 0..(MAX_AXES - 2)
        \* magnitudes in mm^2 (the vectors are in micrometres)
        v1_mag_sq == SumOver([i \in D |-> (v1[i] \div 1000) * (v1[i] \div 1000)], D)
        v2_mag_sq == SumOver([i \in D |-> (v2[i] \div 1000) * (v2[i] \div 1000)], D)
        rest == Tail(pl.lookahead_queue)
    IN IF v1_mag_sq = 0 \/ v2_mag_sq = 0
       THEN \* zero length move in lookahead: finalize and dequeue it
            LET seg == recalculate_timing(seg1)
            IN IF Len(pl.move_queue) < MoveQueueCapacity
               THEN process_lookahead([pl EXCEPT
                        !.lookahead_queue = rest,
                        !.move_queue = Append(pl.move_queue, seg)])
               ELSE [pl |-> [pl EXCEPT !.lookahead_queue = drop_popped(seg, rest)],
                     result |-> "QueueFull"]
       ELSE
       LET dot_product == SumOver([i \in D |-> (v1[i] \div 1000) * (v2[i] \div 1000)], D)
           mags == ISqrt(v1_mag_sq * v2_mag_sq)
           \* cos_theta and 1 - cos_theta in thousandths
           cos_theta == (dot_product * 1000) \div Max(mags, 1)
           denominator == 1000 - cos_theta
           min_accel == Min(seg1.accel, seg2.accel)
           junction_v_sq ==
               IF denominator > 0
               THEN (2 * seg1.junction_deviation * min_accel * Abs(denominator))
                        \div (1000000 * Max(mags, 1))
               ELSE seg1.cruise_v * seg1.cruise_v
           max_v == Min(seg1.cruise_v, seg2.cruise_v)
           junction_v == Min(ISqrt(junction_v_sq), max_v)
           seg1_final == recalculate_timing([seg1 EXCEPT !.end_v = junction_v])
           rest2 == <<[seg2 EXCEPT !.start_v = junction_v]>> \o Tail(rest)
       IN IF Len(pl.move_queue) < MoveQueueCapacity
          THEN process_lookahead([pl EXCEPT
                   !.lookahead_queue = rest2,
                   !.move_queue = Append(pl.move_queue, seg1_final)])
          ELSE [pl |-> [pl EXCEPT !.lookahead_queue =
                                      drop_popped(seg1_final, rest2)],
                result |-> "QueueFull"]

\* plan_move
plan_move(pl, target_pos, p) ==
    LET steps == [i \in Axes |-> target_pos[i] - pl.current_position[i]]
        direction_mask ==
            SumOver([i \in Axes |-> IF steps[i] > 0 THEN Pow2(i) ELSE 0], Axes)
        NE == Axes \ {EXTRUDER_AXIS}
        axis_dist == [i \in NE |-> (steps[i] * 1000) \div steps_per_mm[i]]
        distance == ISqrt(SumOver([i \in NE |-> axis_dist[i] * axis_dist[i]], NE))
        C == 0..(EXTRUDER_AXIS - 1)
        total_steps == MaxOver([i \in C |-> Abs(steps[i])], C)
    IN IF total_steps = 0 /\ steps[EXTRUDER_AXIS] # 0
       THEN [pl |-> pl, result |-> "Ok"]
       ELSE IF distance = 0
       THEN [pl |-> pl, result |-> "Ok"]
       ELSE IF Len(pl.lookahead_queue) >= LOOKAHEAD_SLOTS
       THEN [pl |-> pl, result |-> "QueueFull"]
       ELSE process_lookahead(
                [pl EXCEPT
                   !.lookahead_queue =
                       Append(pl.lookahead_queue,
                              NewSegment(steps, direction_mask, total_steps,
                                         distance, p, pl.placed + 1)),
                   !.current_position = target_pos,
                   !.placed = pl.placed + 1])

\* finalize: the loop after process_lookahead
RECURSIVE finalize_drain(_)
finalize_drain(pl) ==
    IF pl.lookahead_queue = <<>> THEN [pl |-> pl, result |-> "Ok"]
    ELSE LET segment == recalculate_timing(Head(pl.lookahead_queue))
             rest == Tail(pl.lookahead_queue)
         IN IF Len(pl.move_queue) < MoveQueueCapacity
            THEN finalize_drain([pl EXCEPT
                     !.lookahead_queue = rest,
                     !.move_queue = Append(pl.move_queue, segment)])
            ELSE [pl |-> [pl EXCEPT !.lookahead_queue = rest],
                  result |-> "QueueFull"]

\* Variant of finalize without the drain loop of lines 185-190: only the
\* junction pass runs, the last segment stays in the lookahead.
finalize_no_drain(pl) ==
    process_lookahead(pl)

\* finalize
finalize(pl) ==
    LET r == process_lookahead(pl)
    IN IF r.result # "Ok" THEN r ELSE finalize_drain(r.pl)

\* generate_steps, standard path, steps n..N of the segment: the commands
\* enqueued and whether an enqueue failed. first_id numbers the commands.
RECURSIVE expand_steps(_, _, _, _, _, _)
expand_steps(segment, total_time, n, errors, q, first_id) ==
    IF n > segment.total_steps THEN [queue |-> q, result |-> "Ok"]
    ELSE LET t == (n * total_time) \div segment.total_steps
             v == get_velocity(segment, t)
             interval == interval_ticks_u16(v, segment.distance,
                                            segment.total_steps)
             b == bresenham_step(errors, segment.steps, segment.total_steps)
             cmd == StepCommand(b.mask % 256, segment.direction_mask, interval,
                                first_id + Len(q))
         IN IF Len(q) < QueueCapacity
            THEN expand_steps(segment, total_time, n + 1, b.errors,
                              Append(q, cmd), first_id)
            ELSE [queue |-> q, result |-> "Err"]

\* InputShaper::new and recalculate_impulses: the number of impulses and
\* their time offsets in microseconds (the amplitudes are not used by
\* generate_steps); frequency in Hz
InputShaper_new(shaper_type, frequency) ==
    LET half == 500000 \div frequency       \* 0.5 * shaper_period
        period == 1000000 \div frequency
        impulses == IF shaper_type = "ZV" THEN <<0, half>>
                    ELSE IF shaper_type \in {"MZV", "ZVD"} THEN <<0, half, period>>
                    ELSE IF shaper_type = "EI"
                    THEN <<0, half, period, 1500000 \div frequency>>
                    ELSE <<>>
    IN IF frequency > 0
       THEN [shaper_type |-> shaper_type, num_impulses |-> Len(impulses),
             impulses |-> impulses]
       ELSE [shaper_type |-> shaper_type, num_impulses |-> 0, impulses |-> <<>>]

\* BinaryHeap<ScheduledStep, Min, 64>
SHAPER_HEAP_SLOTS == 64
ScheduledStep(time, stepper_mask) == [time |-> time, stepper_mask |-> stepper_mask]

\* the pushes of one step: one ScheduledStep per impulse i..K, an error when
\* the heap is full
RECURSIVE push_impulses(_, _, _, _, _)
push_impulses(shaper, i, current_time_ticks, stepper_mask, heap) ==
    IF i > shaper.num_impulses THEN [heap |-> heap, result |-> "Ok"]
    ELSE IF Len(heap) >= SHAPER_HEAP_SLOTS THEN [heap |-> heap, result |-> "Err"]
    ELSE LET time_offset == shaper.impulses[i]
             shaped_time == saturating_add(current_time_ticks,
                                           U32(time_offset * (CLOCK_FREQ \div 1000000)))
         IN push_impulses(shaper, i + 1, current_time_ticks, stepper_mask,
                          Append(heap, ScheduledStep(shaped_time, stepper_mask % 256)))

\* generate_steps, input shaping path, the first loop from step n on: the
\* heap (in the order of the pushes) and whether a push failed
RECURSIVE schedule_steps(_, _, _, _, _, _, _)
schedule_steps(segment, shaper, total_time, n, errors, last_time_ticks, heap) ==
    IF n > segment.total_steps THEN [heap |-> heap, result |-> "Ok"]
    ELSE LET t == (n * total_time) \div segment.total_steps
             v == get_velocity(segment, t)
             current_time_ticks ==
                 saturating_add(last_time_ticks,
                                interval_ticks(v, segment.distance, segment.total_steps))
             b == bresenham_step(errors, segment.steps, segment.total_steps)
         IN CHOOSE res \in UNION
              {{IF r.result # "Ok" THEN r
                ELSE schedule_steps(segment, shaper, total_time, n + 1, b.errors,
                                    c, r.heap) :
                   r \in {push_impulses(shaper, 1, c, b.mask, heap)}} :
                 c \in {current_time_ticks}} : TRUE

\* ScheduledStep's Ord is reversed (other.time.cmp(&self.time)) and the heap
\* is a Min heap: pop takes the least step in that order, the one with the
\* greatest time. Among steps of equal time the earliest pushed is taken
\* here; the heap's own order among them is not modelled.
heap_top(heap) ==
    CHOOSE i \in 1..Len(heap) :
        /\ \A j \in 1..Len(heap) : ~u32_lt(heap[i].time, heap[j].time)
        /\ \A j \in 1..(i - 1) : heap[j].time # heap[i].time

\* generate_steps, input shaping path, the second loop: the heap is drained
\* into the command queue
RECURSIVE drain_heap(_, _, _, _, _)
drain_heap(heap, prev_time, direction_mask, q, first_id) ==
    IF heap = <<>> THEN [queue |-> q, result |-> "Ok"]
    ELSE LET i == heap_top(heap)
             step == heap[i]
             interval == saturating_sub(step.time, prev_time)
             cmd == StepCommand(step.stepper_mask, direction_mask, interval.lo,
                                first_id + Len(q))
         IN IF Len(q) < QueueCapacity
            THEN drain_heap(SubSeq(heap, 1, i - 1) \o SubSeq(heap, i + 1, Len(heap)),
                            step.time, direction_mask, Append(q, cmd), first_id)
            ELSE [queue |-> q, result |-> "Err"]

\* generate_steps, input shaping path
shape_steps(segment, shaper, total_time, q, first_id) ==
    LET s == schedule_steps(segment, shaper, total_time, 1, [i \in Axes |-> 0],
                            U32(0), <<>>)
    IN IF s.result # "Ok" THEN [queue |-> q, result |-> "Err"]
       ELSE drain_heap(s.heap, U32(0), segment.direction_mask, q, first_id)

\* generate_steps
generate_steps(mq, q, first_id) ==
    IF mq = <<>> THEN [move_queue |-> mq, queue |-> q, result |-> "Err"]
    ELSE LET segment == Head(mq)
             total_time == segment.t_j1 + segment.t_a + segment.t_j2 + segment.t_c
                           + segment.t_j3 + segment.t_d + segment.t_j4
         IN IF total_time <= 0
            THEN [move_queue |-> Tail(mq), queue |-> q, result |-> "Ok"]
            ELSE LET r == IF segment.shaper # <<>>
                          THEN shape_steps(segment, segment.shaper[1], total_time,
                                           q, first_id)
                          ELSE expand_steps(segment, total_time, 1,
                                            [i \in Axes |-> 0], q, first_id)
                 IN [move_queue |-> Tail(mq), queue |-> r.queue,
                     result |-> r.result]

\* the record of a planner call: what was called and what it returned; for
\* plan_move whether the move had zero length; the ids the lookahead held
\* before the call; the number of plan_move calls with a non-zero move so
\* far, and the number of finalize and generate_steps calls so far
PlanCall(op, result, zero_length, held, plan_moves, drains) ==
    [op |-> op, result |-> result, zero_length |-> zero_length, held |-> held,
     plan_moves |-> plan_moves, drains |-> drains]

\* a move plan_move is to discard: no cartesian distance, no extruder steps
IsZeroLengthMove(from, target_pos) ==
    \A i \in Axes : target_pos[i] = from[i]

Planner == [move_queue |-> move_queue, lookahead_queue |-> lookahead_queue,
            current_position |-> current_position, placed |-> placed]

\* the planner positions a run starts from: the origin, and the start of
\* test_full_move_pipeline
StartPositions ==
    {[i \in Axes |-> 0], [i \in Axes |-> IF i = 1 THEN 100 ELSE 0]}

InitPlanner ==
    /\ move_queue = <<>>
    /\ lookahead_queue = <<>>
    /\ current_position \in StartPositions
    /\ planned = [from |-> current_position, to |-> current_position]
    /\ pipe_pc = "plan"
    /\ gen_result = "none"
    /\ placed = 0
    /\ expanded = <<>>
    /\ plan_call = PlanCall("new", "Ok", FALSE, <<>>, 0, 0)

\* the ids of the segments in a queue
SegmentIds(q) == [i \in 1..Len(q) |-> q[i].id]

\* plan_move(target_pos, velocity, accel, jerk, junction_deviation)
PlanMove(target_pos, p) ==
    \E r \in {plan_move(Planner, target_pos, p)} :
        /\ move_queue' = r.pl.move_queue
        /\ lookahead_queue' = r.pl.lookahead_queue
        /\ current_position' = r.pl.current_position
        /\ placed' = r.pl.placed
        /\ plan_call' =
               PlanCall("plan_move", r.result,
                        IsZeroLengthMove(current_position, target_pos),
                        SegmentIds(lookahead_queue),
                        IF IsZeroLengthMove(current_position, target_pos)
                        THEN plan_call.plan_moves ELSE plan_call.plan_moves + 1,
                        plan_call.drains)
        /\ UNCHANGED <<expanded, gen_result>>

\* finalize()
Finalize ==
    \E r \in {finalize(Planner)} :
        /\ move_queue' = r.pl.move_queue
        /\ lookahead_queue' = r.pl.lookahead_queue
        /\ current_position' = r.pl.current_position
        /\ plan_call' = PlanCall("finalize", r.result, FALSE,
                                 SegmentIds(lookahead_queue),
                                 plan_call.plan_moves, plan_call.drains + 1)
        /\ UNCHANGED <<placed, expanded, gen_result>>

\* generate_steps(producer)
GenerateSteps ==
    \E r \in {generate_steps(move_queue, command_queue,
                              Len(enqueued) + 1 - Len(command_queue))} :
        /\ move_queue' = r.move_queue
        /\ command_queue' = r.queue
        /\ enqueued' = enqueued \o
               SubSeq(r.queue, Len(command_queue) + 1, Len(r.queue))
        /\ gen_result' = r.result
        /\ expanded' = IF move_queue = <<>> THEN expanded
                       ELSE Append(expanded, Head(move_queue).id)
        /\ plan_call' = PlanCall("generate_steps", r.result, FALSE,
                                 SegmentIds(lookahead_queue),
                                 plan_call.plan_moves, plan_call.drains + 1)
        /\ UNCHANGED <<lookahead_queue, current_position, placed>>

\* test_input_shaping_zv_application: the segment at the head of move_queue
\* is dequeued, given a shaper and enqueued again
AttachShaper(shaper) ==
    /\ move_queue # <<>>
    /\ move_queue' = Append(Tail(move_queue),
                            [Head(move_queue) EXCEPT !.shaper = <<shaper>>])
    /\ UNCHANGED <<lookahead_queue, current_position, placed, expanded,
                   gen_result, plan_call>>

(***************************************************************************)
(* SafetyMonitor and ThermalMonitor (safety.rs)                            *)
(*                                                                         *)
(* Instants and Durations are in milliseconds, temperatures in degrees     *)
(* Celsius (the f32 values the model uses are whole numbers).              *)
(***************************************************************************)
\* SafetyMonitor<'a, 4, 4> (heater.rs)
NUM_HEATERS == 4
\* the heaters and tasks whose state the model carries
ModelHeaters == {0}
ModelTasks == {0, 1}

\* create_test_monitor (safety_tests.rs): ThermalMonitor::new(5.0, -50.0, 300.0, 25.0)
max_rate_celsius_per_sec == 5
min_temp_limit == -50
max_temp_limit == 300
initial_temp == 25

\* SafetyMonitor::new(.., task_deadlines)
task_deadlines == [t \in ModelTasks |-> IF t = 0 THEN 100 ELSE 500]

\* ThermalMonitor::new
ThermalMonitor_new == [last_temp |-> initial_temp, last_check_time |-> 0]

\* variant: the upper sensor limit is not checked
ThermalMonitor_check_no_max(m, current_temp_, t_now) ==
    IF current_temp_ < min_temp_limit
    THEN [monitor |-> m, result |-> "TempTooLow"]
    ELSE IF m.last_check_time > 0
            /\ t_now - m.last_check_time > 100
            /\ (current_temp_ - m.last_temp) * 1000
                   > max_rate_celsius_per_sec * (t_now - m.last_check_time)
    THEN [monitor |-> m, result |-> "ThermalRunaway"]
    ELSE [monitor |-> [last_temp |-> current_temp_, last_check_time |-> t_now],
          result |-> "Ok"]

\* ThermalMonitor::check at Instant t_now: the monitor afterwards and the
\* result. rate_of_change > max_rate is delta_temp / delta_time_s > max_rate,
\* with delta_time_s > 0.1.
ThermalMonitor_check(m, current_temp_, t_now) ==
    IF current_temp_ < min_temp_limit
    THEN [monitor |-> m, result |-> "TempTooLow"]
    ELSE IF current_temp_ > max_temp_limit
    THEN [monitor |-> m, result |-> "TempTooHigh"]
    ELSE IF m.last_check_time > 0
            /\ t_now - m.last_check_time > 100
            /\ (current_temp_ - m.last_temp) * 1000
                   > max_rate_celsius_per_sec * (t_now - m.last_check_time)
    THEN [monitor |-> m, result |-> "ThermalRunaway"]
    ELSE [monitor |-> [last_temp |-> current_temp_, last_check_time |-> t_now],
          result |-> "Ok"]

\* variant: the flag is toggled instead of set
trigger_emergency_stop_toggle(flag) == ~flag

\* trigger_emergency_stop: emergency_stop_active.swap(true)
trigger_emergency_stop(flag) == TRUE

\* is_emergency_stop_active
is_emergency_stop_active(flag) == flag

\* check_thermal_state: the monitors and the flag afterwards, and what
\* ThermalMonitor::check returned ("None" when there is no such heater)
check_thermal_state(monitors, flag, heater_id, temp, t_now) ==
    IF heater_id < NUM_HEATERS /\ heater_id \in ModelHeaters
    THEN LET r == ThermalMonitor_check(monitors[heater_id], temp, t_now)
         IN [monitors |-> [monitors EXCEPT ![heater_id] = r.monitor],
             flag |-> IF r.result # "Ok" THEN trigger_emergency_stop(flag)
                      ELSE flag,
             result |-> r.result]
    ELSE [monitors |-> monitors, flag |-> flag, result |-> "None"]

\* the tasks check_task_stalls finds stalled at Instant t_now
StalledTasks(check_ins, t_now) ==
    {t \in ModelTasks : t_now - check_ins[t] > task_deadlines[t]}

\* the time and temperature of a ThermalMonitor::check call (time -1: none)
NoCheck == [time |-> -1, temp |-> 0]

\* the record of a SafetyMonitor call made now: what was called with which
\* arguments, what it returned, the flag before the call and, for a check of
\* a monitored heater, the check call before this one
SafetyCall(op, arg, temp, result, before, prev) ==
    [op |-> op, arg |-> arg, temp |-> temp, result |-> result,
     before |-> before, prev |-> prev]

CheckThermalState(heater_id, temp) ==
    LET r == check_thermal_state(thermal_monitors, emergency_stop_active,
                                 heater_id, temp, now)
    IN /\ thermal_monitors' = r.monitors
       /\ emergency_stop_active' = r.flag
       /\ safety_call' =
              SafetyCall("check_thermal_state", heater_id, temp, r.result,
                         emergency_stop_active,
                         IF r.result = "None" THEN NoCheck
                         ELSE last_check[heater_id])
       /\ last_check' = IF r.result = "None" THEN last_check
                        ELSE [last_check EXCEPT
                                  ![heater_id] = [time |-> now, temp |-> temp]]
       /\ UNCHANGED <<now, last_check_in>>

CheckStepperFaults(fault_pin_states) ==
    /\ emergency_stop_active' =
           IF fault_pin_states # 0
           THEN trigger_emergency_stop(emergency_stop_active)
           ELSE emergency_stop_active
    /\ safety_call' = SafetyCall("check_stepper_faults", fault_pin_states, 0,
                                 "Ok", emergency_stop_active, NoCheck)
    /\ UNCHANGED <<now, thermal_monitors, last_check_in, last_check>>

TaskCheckIn(task_id) ==
    /\ last_check_in' = IF task_id \in ModelTasks
                        THEN [last_check_in EXCEPT ![task_id] = now]
                        ELSE last_check_in
    /\ safety_call' = SafetyCall("task_check_in", task_id, 0, "Ok",
                                 emergency_stop_active, NoCheck)
    /\ UNCHANGED <<now, thermal_monitors, emergency_stop_active, last_check>>

CheckTaskStalls ==
    /\ emergency_stop_active' =
           IF StalledTasks(last_check_in, now) # {}
           THEN trigger_emergency_stop(emergency_stop_active)
           ELSE emergency_stop_active
    /\ safety_call' = SafetyCall("check_task_stalls", 0, 0, "Ok",
                                 emergency_stop_active, NoCheck)
    /\ UNCHANGED <<now, thermal_monitors, last_check_in, last_check>>

TriggerEmergencyStop ==
    /\ emergency_stop_active' = trigger_emergency_stop(emergency_stop_active)
    /\ safety_call' = SafetyCall("trigger_emergency_stop", 0, 0, "Ok",
                                 emergency_stop_active, NoCheck)
    /\ UNCHANGED <<now, thermal_monitors, last_check_in, last_check>>

\* feed_watchdog: the watchdog is fed, the monitor's fields are untouched
FeedWatchdog ==
    /\ safety_call' = SafetyCall("feed_watchdog", 0, 0, "Ok",
                                 emergency_stop_active, NoCheck)
    /\ UNCHANGED <<now, thermal_monitors, last_check_in, emergency_stop_active, last_check>>

\* the clock advances by d milliseconds
AdvanceTime(d) ==
    /\ now + d <= MaxTime
    /\ now' = now + d
    /\ safety_call' = SafetyCall("advance", d, 0, "Ok", emergency_stop_active, NoCheck)
    /\ UNCHANGED <<thermal_monitors, last_check_in, emergency_stop_active, last_check>>

\* SafetyMonitor::new at Instant 0 (boot)
InitSafety ==
    /\ now = 0
    /\ emergency_stop_active = FALSE
    /\ thermal_monitors = [h \in ModelHeaters |-> ThermalMonitor_new]
    /\ last_check_in = [t \in ModelTasks |-> 0]
    /\ safety_call = SafetyCall("new", 0, 0, "Ok", FALSE, NoCheck)
    /\ last_check = [h \in ModelHeaters |-> NoCheck]

(***************************************************************************)
(* Fixed16_16 (fixed_point.rs): an i32 holding value * 2^16.               *)
(* The 64-bit intermediates of mul and div are computed on 16-bit halves,  *)
(* so that no step leaves the 32-bit range.                                *)
(***************************************************************************)
FRAC_BITS == 16
SCALE == Pow2(FRAC_BITS)
HALF == Pow2(16)      \* an i32 magnitude is hi * HALF + lo

\* the halves of |a|
MagHi(a) == IF a = I32_MIN THEN HALF \div 2 ELSE Abs(a) \div HALF
MagLo(a) == IF a = I32_MIN THEN 0 ELSE Abs(a) % HALF

\* `as i32` of the 64-bit value +-(.. + hi * 2^16 + lo): its low 32 bits
wrap_i32(neg, hi, lo) ==
    IF ~neg
    THEN IF hi >= HALF \div 2 THEN (hi - HALF) * HALF + lo ELSE hi * HALF + lo
    ELSE IF hi < HALF \div 2 THEN -(hi * HALF + lo)
    ELSE IF hi = HALF \div 2 /\ lo = 0 THEN I32_MIN
    ELSE IF lo = 0 THEN (HALF - hi) * HALF
    ELSE (HALF - 1 - hi) * HALF + (HALF - lo)

\* Fixed16_16::from_float(num / den) for num / den >= 0:
\* (f * SCALE as f32) as i32 truncates, and saturates at i32::MAX
from_float(num, den) ==
    IF num \div den >= 32768 THEN I32_MAX
    ELSE (num \div den) * SCALE + ((num % den) * SCALE) \div den

\* Fixed16_16::to_float, for the whole-degree values of the model
to_float(a) == a \div SCALE

\* Add: saturating_add
fx_add(a, b) ==
    IF b >= 0
    THEN IF a > I32_MAX - b THEN I32_MAX ELSE a + b
    ELSE IF a < I32_MIN - b THEN I32_MIN ELSE a + b

\* Sub: saturating_sub
fx_sub(a, b) ==
    IF b >= 0
    THEN IF a < I32_MIN + b THEN I32_MIN ELSE a - b
    ELSE IF a > I32_MAX + b THEN I32_MAX ELSE a - b

\* (x * y) >> 16 as i32, on the halves of |x| and |y|; >> rounds towards
\* minus infinity
mul_i64(x, y) ==
    LET ah == MagHi(x)
        al == MagLo(x)
        bh == MagHi(y)
        bl == MagLo(y)
        \* al * bl = X * 256 + Y
        X == (al \div 256) * bl
        Y == (al % 256) * bl
        T == X + (Y \div 256)
        llq == T \div 256                      \* (al * bl) >> 16
        llr == (T % 256) * 256 + (Y % 256)     \* (al * bl) mod 2^16
        xm == ah * bl
        ym == al * bh
        mlo == (xm % HALF) + (ym % HALF) + llq
        hi == ah * bh + (xm \div HALF) + (ym \div HALF) + (mlo \div HALF)
        lo == mlo % HALF
        neg == (x < 0) # (y < 0)
        inc == IF neg /\ llr # 0 THEN 1 ELSE 0
        lo2 == (lo + inc) % HALF
        hi2 == hi + ((lo + inc) \div HALF)
    IN wrap_i32(neg /\ x # 0 /\ y # 0, hi2 % HALF, lo2)

\* Mul: ((a as i64 * b as i64) >> 16) as i32
fx_mul(a, b) == CHOOSE v \in {mul_i64(x, y) : x \in {a}, y \in {b}} : TRUE

\* one bit of a binary long division by B > 0: the remainder st.r < B is
\* doubled, the bit brought down, and the quotient st.q extended
div_step(st, B, bit) ==
    IF st.r >= B - st.r - bit
    THEN [r |-> st.r - (B - st.r - bit), q |-> 2 * st.q + 1]
    ELSE [r |-> st.r + st.r + bit, q |-> 2 * st.q]

\* the k low bits of digit brought down in turn, from the top
RECURSIVE div_bits(_, _, _, _)
div_bits(st, B, digit, k) ==
    IF k = 0 THEN st
    ELSE CHOOSE v \in {div_bits(n, B, digit, k - 1) :
                           n \in {div_step(st, B, Bit(digit, k - 1))}} : TRUE

\* long division of the base-2^16 digits (most significant first) by B > 0,
\* r < B being the remainder so far: the quotient's digits
RECURSIVE div_digits(_, _, _)
div_digits(r, B, digits) ==
    IF digits = <<>> THEN <<>>
    ELSE CHOOSE v \in {<<s.q>> \o div_digits(s.r, B, Tail(digits)) :
                           s \in {div_bits([r |-> r, q |-> 0], B, Head(digits), 16)}}
             : TRUE

\* (x << 16) / y as i32 for y # 0; / truncates towards zero
div_i64(x, y) ==
    IF y = I32_MIN
    THEN (IF x = I32_MIN THEN HALF
          ELSE IF x >= 0 THEN -(x \div (HALF \div 2))
          ELSE (-x) \div (HALF \div 2))
    ELSE CHOOSE v \in
             {wrap_i32((x < 0) # (y < 0), qs[2], qs[3]) :
                  qs \in {div_digits(0, Abs(y), <<MagHi(x), MagLo(x), 0>>)}} : TRUE

\* Div: (((a as i64) << 16) / b as i64) as i32, i32::MAX for b = 0
fx_div(a, b) ==
    IF b = 0 THEN I32_MAX
    ELSE CHOOSE v \in {div_i64(x, y) : x \in {a}, y \in {b}} : TRUE

(***************************************************************************)
(* PidController and heater_task (heater.rs)                               *)
(***************************************************************************)
\* pwm.get_max_duty() (max_duty of heater_tests.rs)
MAX_DUTY == 1000

\* PidController::new, the gains already converted with from_float
PidController_new(kp, ki, kd, output_max) ==
    LET output_max_fixed == from_float(output_max, 1)
    IN [kp |-> kp, ki |-> ki, kd |-> kd, integral |-> 0, prev_error |-> 0,
        output_max |-> output_max_fixed,
        integral_max |-> IF ki > 0 THEN fx_div(output_max_fixed, ki) ELSE 0]

\* PidController::reset
PidController_reset(p) == [p EXCEPT !.integral = 0, !.prev_error = 0]

\* PidController::update: the controller afterwards and the duty returned
PidController_update(p, error, dt) ==
    LET p_term == fx_mul(p.kp, error)
        sum == fx_add(p.integral, fx_mul(error, dt))
        integral == IF sum > p.integral_max THEN p.integral_max
                    ELSE IF sum < -p.integral_max THEN -p.integral_max
                    ELSE sum
        i_term == fx_mul(p.ki, integral)
        derivative == fx_div(fx_sub(error, p.prev_error), dt)
        d_term == fx_mul(p.kd, derivative)
        output == fx_add(fx_add(p_term, i_term), d_term)
        clamped == IF output < 0 THEN 0
                   ELSE IF output > p.output_max THEN p.output_max
                   ELSE output
    IN [pid |-> [p EXCEPT !.integral = integral, !.prev_error = error],
        duty |-> clamped % (U16_MAX + 1),           \* output.0 as u16
        output |-> output]          \* p_term + i_term + d_term, before the clamp

\* heater_task(heater_id, .., update_freq_hz)
heater_id == 0
\* Duration::from_hz(update_freq_hz), in milliseconds
interval == 1000 \div UpdateFreqHz
\* Fixed16_16::from_float(1.0 / update_freq_hz as f32)
dt == from_float(1, UpdateFreqHz)

\* variant: the loop does not look at the emergency-stop flag
heater_loop_no_estop_check(flag, target, current, p) ==
    IF target <= 0
    THEN [checked |-> TRUE, pid |-> PidController_reset(p), duty |-> 0]
    ELSE LET r == PidController_update(p, fx_sub(target, current), dt)
         IN [checked |-> TRUE, pid |-> r.pid, duty |-> r.duty]

\* one iteration of heater_task's loop, given the flag read at its top and
\* the target and current temperature it reads: whether check_thermal_state
\* is called, the controller afterwards and the duty given to pwm.set_duty
heater_loop(flag, target, current, p) ==
    IF is_emergency_stop_active(flag)
    THEN [checked |-> FALSE, pid |-> p, duty |-> 0]
    ELSE IF target <= 0
    THEN [checked |-> TRUE, pid |-> PidController_reset(p), duty |-> 0]
    ELSE LET r == PidController_update(p, fx_sub(target, current), dt)
         IN [checked |-> TRUE, pid |-> r.pid, duty |-> r.duty]

\* what a loop iteration saw and wrote: the flag at the top of the loop and
\* at pwm.set_duty, the duty written, and whether the duty before was non-zero
HeaterLog(at_top, at_write, duty, was_heating) ==
    [estop_at_top |-> at_top, estop_at_write |-> at_write, duty |-> duty,
     was_heating |-> was_heating, wrote |-> TRUE]

\* the loop body up to ticker.next(). The locks are uncontended when the task
\* runs, so no other task runs between them.
HeaterIteration ==
    /\ heater_pc = "ready"
    /\ \E r \in {heater_loop(emergency_stop_active, target_temp, current_temp, pid)} :
          /\ IF r.checked
             THEN CheckThermalState(heater_id, to_float(current_temp))
             ELSE UNCHANGED safety_vars
          /\ pid' = r.pid
          /\ pwm_duty' = r.duty
          /\ heater_log' = HeaterLog(emergency_stop_active, emergency_stop_active',
                                     r.duty, pwm_duty > 0)
    /\ heater_pc' = "waiting"
    /\ UNCHANGED <<target_temp, current_temp, pid_call>>

\* ticker.next() returns one interval later
TickerNext ==
    /\ heater_pc = "waiting"
    /\ now + interval <= MaxHeaterTime
    /\ now' = now + interval
    /\ heater_pc' = "ready"
    /\ UNCHANGED <<emergency_stop_active, thermal_monitors, last_check_in,
                   safety_call, last_check, target_temp, current_temp, pid,
                   pwm_duty, heater_log, pid_call>>

\* another task stores a target temperature
SetTargetTemp(t) ==
    /\ target_temp' = t
    /\ UNCHANGED <<safety_vars, current_temp, pid, pwm_duty, heater_pc, heater_log,
                   pid_call>>

\* the ADC task stores a temperature reading
SetCurrentTemp(t) ==
    /\ current_temp' = t
    /\ UNCHANGED <<safety_vars, target_temp, pid, pwm_duty, heater_pc, heater_log,
                   pid_call>>

\* a PidController call made directly: the operation, the error given, the
\* sum of the three terms and the duty returned, the controller before, the
\* output_max the controller was made with and the number of updates so far
PidCall(op, error, output, duty, before, output_max, updates) ==
    [op |-> op, error |-> error, output |-> output, duty |-> duty,
     before |-> before, output_max |-> output_max, updates |-> updates]

\* let mut pid = PidController::new(kp, ki, kd, output_max)
PidNew(kp, ki, kd, output_max) ==
    /\ pid' = PidController_new(kp, ki, kd, output_max)
    /\ pid_call' = PidCall("new", 0, 0, 0, pid, output_max, 0)
    /\ UNCHANGED <<target_temp, current_temp, pwm_duty, heater_pc, heater_log>>

\* let output = pid.update(error, dt)
PidUpdate(error, delta) ==
    /\ \E r \in {PidController_update(pid, error, delta)} :
          /\ pid' = r.pid
          /\ pid_call' = PidCall("update", error, r.output, r.duty, pid,
                                 pid_call.output_max, pid_call.updates + 1)
    /\ UNCHANGED <<target_temp, current_temp, pwm_duty, heater_pc, heater_log>>

\* HeaterSharedState::new, PidController::new(10.0, 0.1, 8.0, max_duty)
InitHeater ==
    /\ target_temp = 0
    /\ current_temp = 0
    /\ pid = PidController_new(from_float(10, 1), from_float(1, 10),
                               from_float(8, 1), MAX_DUTY)
    /\ pwm_duty = 0
    /\ heater_pc = "ready"
    /\ heater_log = [estop_at_top |-> FALSE, estop_at_write |-> FALSE,
                     duty |-> 0, was_heating |-> FALSE, wrote |-> FALSE]
    /\ pid_call = PidCall("none", 0, 0, 0, pid, MAX_DUTY, 0)

(***************************************************************************)
(* The Klipper protocol parser (klipper-proto: crc.rs, parser.rs)          *)
(*                                                                         *)
(* A byte slice is a sequence of numbers 0..255; Rust's index i is index   *)
(* i + 1 here. Every slicing and indexing of the code carries its bounds   *)
(* check: where the check fails the call panics.                           *)
(***************************************************************************)
\* s[i]
At(s, i) == s[i + 1]
\* &s[a..b]
Slice(s, a, b) == SubSeq(s, a + 1, b)

\* a ^ b for the bit of weight w (a power of two)
XorBit(a, b, w) == (((a \div w) + (b \div w)) % 2) * w
\* a ^ b on u8 and on u16
Xor8(a, b) ==
    XorBit(a, b, 1) + XorBit(a, b, 2) + XorBit(a, b, 4) + XorBit(a, b, 8)
    + XorBit(a, b, 16) + XorBit(a, b, 32) + XorBit(a, b, 64) + XorBit(a, b, 128)
Xor16(a, b) == Xor8(a \div 256, b \div 256) * 256 + Xor8(a % 256, b % 256)

\* crc ^ 0x1021 for a crc whose bit 0 is clear: bits 12, 5 and 0 change
xor_poly(crc) ==
    crc + (IF (crc \div 4096) % 2 = 1 THEN -4096 ELSE 4096)
        + (IF (crc \div 32) % 2 = 1 THEN -32 ELSE 32) + 1

\* crc16_ccitt, the body of the inner loop: one shift of the u16
crc_shift(crc) ==
    IF crc >= 32768 THEN xor_poly((crc * 2) % 65536)    \* crc & 0x8000 != 0
    ELSE crc * 2

\* crc16_ccitt, the inner loop from j on
RECURSIVE crc_bits(_, _)
crc_bits(crc, j) ==
    IF j >= 8 THEN crc
    ELSE CHOOSE v \in {crc_bits(c, j + 1) : c \in {crc_shift(crc)}} : TRUE

\* crc16_ccitt, the outer loop from i on
RECURSIVE crc_bytes(_, _, _, _)
crc_bytes(data, len, i, crc) ==
    IF i >= len THEN crc
    ELSE CHOOSE v \in {crc_bytes(data, len, i + 1, c) :
                           c \in {crc_bits(Xor16(crc, At(data, i) * 256), 0)}} : TRUE

\* crc16_ccitt(data, len), for len <= data.len()
crc16_ccitt(data, len) ==
    CHOOSE v \in {crc_bytes(d, len, 0, 65535) : d \in {data}} : TRUE

\* u16::to_be_bytes, u16::from_be_bytes / be_u16, i16
to_be_bytes(v) == <<v \div 256, v % 256>>
be_u16(b) == At(b, 0) * 256 + At(b, 1)
be_i16(b) == IF be_u16(b) >= 32768 THEN be_u16(b) - 65536 ELSE be_u16(b)

SYNC_BYTE == 29     \* 0x1d

\* Command; a u32 is kept as its two u16 halves
Command(name, args) == [name |-> name, args |-> args]
NoCommand == Command("none", <<>>)

\* parse_command: ok is FALSE where a nom parser fails (streaming parsers
\* fail on short input)
parse_command(input) ==
    IF Len(input) < 1 THEN [ok |-> FALSE, command |-> NoCommand]
    ELSE LET command_id == At(input, 0)
             i == Tail(input)
         IN IF command_id = 1
            THEN [ok |-> TRUE, command |-> Command("Identify", i)]
            ELSE IF command_id = 2
            THEN [ok |-> TRUE, command |-> Command("GetConfig", <<>>)]
            ELSE IF command_id = 3
            THEN [ok |-> TRUE, command |-> Command("GetStatus", <<>>)]
            ELSE IF command_id = 16
            THEN (IF Len(i) < 8 THEN [ok |-> FALSE, command |-> NoCommand]
                  ELSE [ok |-> TRUE,
                        command |-> Command("QueueStep",
                            <<be_u16(Slice(i, 0, 2)), be_u16(Slice(i, 2, 4)),
                              be_u16(Slice(i, 4, 6)), be_i16(Slice(i, 6, 8))>>)])
            ELSE IF command_id = 33
            THEN (IF Len(i) < 2 THEN [ok |-> FALSE, command |-> NoCommand]
                  ELSE [ok |-> TRUE,
                        command |-> Command("SetDigitalOut", <<At(i, 0), At(i, 1)>>)])
            ELSE IF command_id = 32
            THEN (IF Len(i) < 3 THEN [ok |-> FALSE, command |-> NoCommand]
                  ELSE [ok |-> TRUE,
                        command |-> Command("SetPwmOut",
                                            <<At(i, 0), be_u16(Slice(i, 1, 3))>>)])
            ELSE [ok |-> TRUE, command |-> Command("Unknown", <<command_id>> \o i)]

\* what Parser::parse returns: Ok(Some((Message::Command(command), n))),
\* Ok(None), Err((error, n)), or a panic
ParsedMessage(command, n) ==
    [kind |-> "Message", command |-> command, error |-> "none", n |-> n]
Incomplete == [kind |-> "Incomplete", command |-> NoCommand, error |-> "none", n |-> 0]
ParseError(error, n) == [kind |-> "Err", command |-> NoCommand, error |-> error, n |-> n]
Panic == [kind |-> "Panic", command |-> NoCommand, error |-> "none", n |-> 0]

\* input.iter().position(|&b| b == SYNC_BYTE): -1 is None
position(input) ==
    IF \E k \in 1..Len(input) : input[k] = SYNC_BYTE
    THEN (CHOOSE k \in 1..Len(input) :
              input[k] = SYNC_BYTE /\ \A j \in 1..(k - 1) : input[j] # SYNC_BYTE) - 1
    ELSE -1

\* variant: the length is read from the byte that follows the sync byte
msg_len_after_sync(buffer) == At(buffer, 1)

\* let msg_len = buffer[0] as usize, buffer being &input[sync_pos..]
msg_len_of(buffer) == At(buffer, 0)

\* Parser::parse from "We have a full potential message" on
parse_frame(buffer, msg_len, sync_pos) ==
    IF msg_len > Len(buffer) THEN Panic              \* &buffer[..msg_len]
    ELSE IF 1 > msg_len THEN Panic                   \* &frame_with_len[1..]
    ELSE IF msg_len - 1 < 2 THEN Panic               \* payload_and_crc.len() - 2
    ELSE LET frame_with_len == Slice(buffer, 0, msg_len)
             payload_and_crc == Slice(frame_with_len, 1, msg_len)
             payload == Slice(payload_and_crc, 0, Len(payload_and_crc) - 2)
             received_crc == be_u16(Slice(payload_and_crc, Len(payload_and_crc) - 2,
                                          Len(payload_and_crc)))
             calculated_crc == crc16_ccitt(frame_with_len, msg_len - 2)
         IN IF received_crc # calculated_crc
            THEN ParseError("InvalidCrc", sync_pos + 1)
            ELSE LET r == parse_command(payload)
                 IN IF r.ok THEN ParsedMessage(r.command, sync_pos + msg_len + 1)
                    ELSE ParseError("InvalidPayload", sync_pos + 1)

\* Parser::parse
parse(input) ==
    LET sync_pos == position(input)
    IN IF sync_pos < 0 THEN ParseError("InvalidSync", Len(input))
       ELSE LET buffer == Slice(input, sync_pos, Len(input))
                original_len == Len(buffer)
            IN IF original_len < 4 THEN Incomplete
               ELSE LET msg_len == msg_len_of(buffer)
                    IN IF original_len < msg_len THEN Incomplete
                       ELSE parse_frame(buffer, msg_len, sync_pos)

\* build_test_frame (protocol_parser_tests.rs): a well-formed frame
build_test_frame(seq, command_id, payload) ==
    LET msg_len == 1 + 1 + Len(payload) + 2
        body == <<msg_len, seq, command_id>> \o payload
    IN <<SYNC_BYTE>> \o body \o to_be_bytes(crc16_ccitt(body, msg_len - 1))

\* the caller advances its buffer by the count parse returned; a count
\* beyond the buffer leaves nothing to parse
Advance(buffer, n) ==
    IF n >= Len(buffer) THEN <<>> ELSE SubSeq(buffer, n + 1, Len(buffer))

\* how the received bytes were made up: noise, then the frame built from
\* frame = <<seq, command_id, payload>> (or nothing), then tail; at is the
\* place of the byte that was changed or at which the frame was cut
RxInput(kind, noise, frame, tail, at) ==
    [kind |-> kind, noise |-> noise, frame |-> frame, tail |-> tail, at |-> at]

\* bytes arrive: the caller holds them
Receive(bytes, input) ==
    /\ rx_input.kind = "none"
    /\ rx_buffer' = bytes
    /\ rx_input' = input
    /\ UNCHANGED parse_log

\* the caller's receive loop: parse, then advance by the count returned with
\* a message or an error; on Ok(None) it waits for more bytes
ParseAndAdvance ==
    /\ rx_input.kind # "none"
    /\ Len(parse_log) < MaxParses
    /\ IF parse_log = <<>> THEN TRUE
       ELSE parse_log[Len(parse_log)].kind \in {"Message", "Err"}
    /\ \E r \in {parse(rx_buffer)} :
          /\ parse_log' = Append(parse_log, r)
          /\ rx_buffer' = Advance(rx_buffer, r.n)
    /\ UNCHANGED rx_input

\* no bytes received yet
InitParser ==
    /\ rx_buffer = <<>>
    /\ rx_input = RxInput("none", <<>>, <<>>, <<>>, 0)
    /\ parse_log = <<>>

(***************************************************************************)
(* KlipperCodec (klipper-proto codec.rs): frames of                        *)
(*   SYNC, LEN, CRC8, escaped postcard payload                             *)
(* LEN counts every byte after the sync byte.                              *)
(***************************************************************************)
codec_SYNC_BYTE == 126      \* 0x7E
ESCAPE_BYTE == 125          \* 0x7D
MAX_FRAME_SIZE == 256

\* crc8_atm, the body of the inner loop: one shift of the u8
crc8_shift(crc) ==
    IF crc >= 128 THEN Xor8((crc * 2) % 256, 7)     \* crc & 0x80 != 0
    ELSE crc * 2

\* crc8_atm, the inner loop from j on
RECURSIVE crc8_bits(_, _)
crc8_bits(crc, j) ==
    IF j >= 8 THEN crc
    ELSE CHOOSE v \in {crc8_bits(c, j + 1) : c \in {crc8_shift(crc)}} : TRUE

\* crc8_atm, the outer loop over the bytes i with from <= i < to, starting
\* with crc; the range is halved to keep the evaluation shallow
RECURSIVE crc8_bytes(_, _, _, _)
crc8_bytes(data, from, to, crc) ==
    IF to <= from THEN crc
    ELSE IF to = from + 1 THEN crc8_bits(Xor8(crc, At(data, from)), 0)
    ELSE LET mid == (from + to) \div 2
         IN CHOOSE v \in {crc8_bytes(data, mid, to, c) :
                              c \in {crc8_bytes(data, from, mid, crc)}} : TRUE

\* KlipperCodec::crc8_atm
crc8_atm(data) == CHOOSE v \in {crc8_bytes(d, 0, Len(d), 0) : d \in {data}} : TRUE

\* escape, the loop over the bytes i with from <= i < to: the bytes written
RECURSIVE escape_bytes(_, _, _)
escape_bytes(payload, from, to) ==
    IF to <= from THEN <<>>
    ELSE IF to = from + 1
    THEN LET byte == At(payload, from)
         IN IF byte = codec_SYNC_BYTE \/ byte = ESCAPE_BYTE
            THEN <<ESCAPE_BYTE, Xor8(byte, 32)>>
            ELSE <<byte>>
    ELSE LET mid == (from + to) \div 2
         IN escape_bytes(payload, from, mid) \o escape_bytes(payload, mid, to)

\* variant of escape: the payload is written as it is
escape_nothing(payload, dst) == dst \o payload

\* KlipperCodec::escape: the payload appended to dst, 0x7E and 0x7D escaped
escape(payload, dst) == dst \o escape_bytes(payload, 0, Len(payload))

\* Message of the protocol tests: Command(GetConfig | GCode(String) |
\* EmergencyStop) and Response(GCodeOk | GCodeError(String)); text is the
\* string's bytes, <<>> for a variant without one
Message(kind, variant, text) == [kind |-> kind, variant |-> variant, text |-> text]
NoMessage == Message("none", "none", <<>>)
HasText(m) == m.variant \in {"GCode", "GCodeError"}

\* postcard's enum discriminants: the index of the variant
KindIndex == [Command |-> 0, Response |-> 1]
VariantIndex == [GetConfig |-> 0, GCode |-> 1, EmergencyStop |-> 2,
                 GCodeOk |-> 1, GCodeError |-> 2]
CommandVariant(i) ==
    IF i = 0 THEN "GetConfig" ELSE IF i = 1 THEN "GCode"
    ELSE IF i = 2 THEN "EmergencyStop" ELSE "none"
ResponseVariant(i) ==
    IF i = 1 THEN "GCodeOk" ELSE IF i = 2 THEN "GCodeError" ELSE "none"

\* postcard's varint of a length below 2^14
varint(n) == IF n < 128 THEN <<n>> ELSE <<128 + (n % 128), n \div 128>>

\* postcard::to_slice(&item, &mut temp_buf): ok is FALSE when the
\* serialised message does not fit temp_buf
to_slice(item) ==
    LET bytes == <<KindIndex[item.kind], VariantIndex[item.variant]>>
                 \o (IF HasText(item) THEN varint(Len(item.text)) \o item.text
                     ELSE <<>>)
    IN [ok |-> Len(bytes) <= MAX_FRAME_SIZE, bytes |-> bytes]

\* postcard::from_bytes::<Message>: bytes after the message are ignored; a
\* string is taken as valid UTF-8 when all its bytes are ASCII
from_bytes(payload) ==
    LET n == Len(payload)
        kind == IF n >= 1 /\ At(payload, 0) = 0 THEN "Command"
                ELSE IF n >= 1 /\ At(payload, 0) = 1 THEN "Response" ELSE "none"
        variant == IF n < 2 THEN "none"
                   ELSE IF kind = "Command" THEN CommandVariant(At(payload, 1))
                   ELSE IF kind = "Response" THEN ResponseVariant(At(payload, 1))
                   ELSE "none"
        long == n >= 3 /\ At(payload, 2) >= 128
        len_ok == IF long THEN n >= 4 /\ At(payload, 3) < 128 ELSE n >= 3
        len == IF ~len_ok THEN 0
               ELSE IF long THEN At(payload, 2) - 128 + 128 * At(payload, 3)
               ELSE At(payload, 2)
        text_at == IF long THEN 4 ELSE 3
        text == IF len_ok /\ text_at + len <= n
                THEN Slice(payload, text_at, text_at + len) ELSE <<>>
    IN IF variant = "none" THEN [ok |-> FALSE, message |-> NoMessage]
       ELSE IF variant \notin {"GCode", "GCodeError"}
       THEN [ok |-> TRUE, message |-> Message(kind, variant, <<>>)]
       ELSE IF len_ok /\ text_at + len <= n /\ \A i \in 1..Len(text) : text[i] < 128
       THEN [ok |-> TRUE, message |-> Message(kind, variant, text)]
       ELSE [ok |-> FALSE, message |-> NoMessage]

\* Encoder::encode(item, dst): the result and dst afterwards
encode(item, dst) ==
    LET serialized == to_slice(item)
    IN IF ~serialized.ok THEN [result |-> "Err", dst |-> dst]
       ELSE LET crc == crc8_atm(serialized.bytes)
                framed == escape(serialized.bytes,
                                 dst \o <<codec_SYNC_BYTE, 0, crc>>)
                frame_len == Len(framed) - 1
            IN IF frame_len > 255
               THEN [result |-> "Err", dst |-> framed]      \* BufferTooSmall
               ELSE [result |-> "Ok", dst |-> [framed EXCEPT ![2] = frame_len]]

\* what a decode call returns, and src afterwards; a panic is an outcome
\* of its own
Decoded(kind, message, error, src) ==
    [kind |-> kind, message |-> message, error |-> error, rest |-> src]

\* the unescape loop of decode over the bytes i of frame_data with
\* from <= i < to: st is the payload so far and whether the byte before was
\* an escape byte still waiting for its next_byte
RECURSIVE unescape_bytes(_, _, _, _)
unescape_bytes(frame_data, from, to, st) ==
    IF to <= from THEN st
    ELSE IF to = from + 1
    THEN LET byte == At(frame_data, from)
         IN IF st.escaped
            THEN [payload |-> Append(st.payload, Xor8(byte, 32)), escaped |-> FALSE]
            ELSE IF byte = ESCAPE_BYTE
            THEN [payload |-> st.payload, escaped |-> TRUE]
            ELSE [payload |-> Append(st.payload, byte), escaped |-> FALSE]
    ELSE LET mid == (from + to) \div 2
         IN CHOOSE v \in {unescape_bytes(frame_data, mid, to, s) :
                              s \in {unescape_bytes(frame_data, from, mid, st)}} : TRUE

\* the unescape loop of decode: ok is FALSE for a dangling escape byte
unescape(frame_data) ==
    LET st == unescape_bytes(frame_data, 0, Len(frame_data),
                             [payload |-> <<>>, escaped |-> FALSE])
    IN [ok |-> ~st.escaped, payload |-> st.payload]

\* decode from `let mut frame_data = src.split_to(1 + frame_len)` on, src
\* being the bytes from the sync byte; each get_u8 panics on an empty buffer
decode_frame(src, frame_len) ==
    LET frame_data == Slice(src, 0, 1 + frame_len)
        rest == Slice(src, 1 + frame_len, Len(src))
    IN IF Len(frame_data) < 3 THEN Decoded("Panic", NoMessage, "none", rest)
       ELSE LET crc == At(frame_data, 2)
                u == unescape(Slice(frame_data, 3, Len(frame_data)))
            IN IF ~u.ok THEN Decoded("Err", NoMessage, "Incomplete", rest)
               ELSE IF crc # crc8_atm(u.payload)
               THEN Decoded("Err", NoMessage, "InvalidCrc", rest)
               ELSE LET d == from_bytes(u.payload)
                    IN IF d.ok THEN Decoded("Some", d.message, "none", rest)
                       ELSE Decoded("Err", NoMessage, "Postcard", rest)

\* src.iter().position(|&b| b == SYNC_BYTE), -1 for None
sync_position(src) ==
    IF \E i \in 1..Len(src) : src[i] = codec_SYNC_BYTE
    THEN (CHOOSE i \in 1..Len(src) :
              /\ src[i] = codec_SYNC_BYTE
              /\ \A j \in 1..(i - 1) : src[j] # codec_SYNC_BYTE) - 1
    ELSE -1

\* Decoder::decode(src)
decode(src) ==
    LET sync_pos == sync_position(src)
        synced == Slice(src, sync_pos, Len(src))        \* src.advance(sync_pos)
    IN IF sync_pos < 0 THEN Decoded("None", NoMessage, "none", <<>>)
       ELSE IF Len(synced) < 3 THEN Decoded("None", NoMessage, "none", synced)
       ELSE IF Len(synced) < 1 + At(synced, 1)
       THEN Decoded("None", NoMessage, "none", synced)
       ELSE CHOOSE r \in {decode_frame(s, At(s, 1)) : s \in {synced}} : TRUE

\* how the bytes in the buffer were made up: by encode calls on the buffer
\* ("encoded", after noise bytes put there first), by a peer that encodes
\* every frame into an empty buffer and sends them one after the other
\* ("stream"), or as raw bytes ("raw"). messages and results are the encode
\* calls in order, before and after the buffer around the last of them, and
\* corrupt is <<>> or the frame, the offset in it and the byte written there
CodecSent(mode, noise, messages, results, before, after, corrupt) ==
    [mode |-> mode, noise |-> noise, messages |-> messages, results |-> results,
     before |-> before, after |-> after, corrupt |-> corrupt]

\* buffer.extend_from_slice(noise) on the new buffer
CodecNoise(noise) ==
    /\ codec_sent.mode = "none"
    /\ codec_buf' = codec_buf \o noise
    /\ codec_sent' = CodecSent("encoded", noise, <<>>, <<>>, codec_buf,
                               codec_buf \o noise, <<>>)
    /\ UNCHANGED codec_log

\* codec.encode(m, &mut buffer)
CodecEncode(m) ==
    /\ codec_sent.mode \in {"none", "encoded"}
    /\ codec_log = <<>>
    /\ \E r \in {encode(m, codec_buf)} :
          /\ codec_buf' = r.dst
          /\ codec_sent' = CodecSent("encoded", codec_sent.noise,
                                     Append(codec_sent.messages, m),
                                     Append(codec_sent.results, r.result),
                                     codec_buf, r.dst, <<>>)
    /\ UNCHANGED codec_log

\* the peer encodes m into an empty buffer and the frame arrives
CodecReceiveFrame(m) ==
    /\ codec_sent.mode \in {"none", "stream"}
    /\ codec_sent.corrupt = <<>>
    /\ codec_log = <<>>
    /\ \E r \in {encode(m, <<>>)} :
          /\ r.result = "Ok"
          /\ codec_buf' = codec_buf \o r.dst
          /\ codec_sent' = CodecSent("stream", <<>>,
                                     Append(codec_sent.messages, m),
                                     Append(codec_sent.results, r.result),
                                     codec_buf, codec_buf \o r.dst, <<>>)
    /\ UNCHANGED codec_log

\* the frame of message k of a stream, and the offset in the stream where
\* it starts
StreamFrame(k) == encode(codec_sent.messages[k], <<>>).dst
RECURSIVE StreamOffset(_)
StreamOffset(k) == IF k <= 1 THEN 0 ELSE StreamOffset(k - 1) + Len(StreamFrame(k - 1))

\* the line corrupts byte `at` of frame k into b
CodecCorrupt(k, at, b) ==
    /\ codec_sent.mode = "stream"
    /\ codec_sent.corrupt = <<>>
    /\ codec_log = <<>>
    /\ k \in 1..Len(codec_sent.messages)
    /\ at < Len(StreamFrame(k))
    /\ At(codec_buf, StreamOffset(k) + at) # b
    /\ codec_buf' = [codec_buf EXCEPT ![StreamOffset(k) + at + 1] = b]
    /\ codec_sent' = [codec_sent EXCEPT !.corrupt = <<[frame |-> k, at |-> at, byte |-> b]>>,
                                        !.after = codec_buf']
    /\ UNCHANGED codec_log

\* BytesMut::from(bytes)
CodecRaw(bytes) ==
    /\ codec_sent.mode = "none"
    /\ codec_buf' = bytes
    /\ codec_sent' = CodecSent("raw", <<>>, <<>>, <<>>, <<>>, bytes, <<>>)
    /\ UNCHANGED codec_log

\* codec.decode(&mut buffer); a panic ends the run
CodecDecode ==
    /\ codec_sent.mode # "none"
    /\ IF codec_log = <<>> THEN TRUE
       ELSE codec_log[Len(codec_log)].kind # "Panic"
    /\ \E r \in {decode(codec_buf)} :
          /\ codec_log' = Append(codec_log, r)
          /\ codec_buf' = r.rest
    /\ UNCHANGED codec_sent

\* BytesMut::new(), nothing encoded or decoded yet
InitCodec ==
    /\ codec_buf = <<>>
    /\ codec_sent = CodecSent("none", <<>>, <<>>, <<>>, <<>>, <<>>, <<>>)
    /\ codec_log = <<>>

(***************************************************************************)
(* CommandRegistry (klipper-proto registry.rs)                             *)
(***************************************************************************)
\* HashMap::insert: an entry for the key is replaced
insert(map, key, value) ==
    [k \in DOMAIN map \cup {key} |-> IF k = key THEN value ELSE map[k]]

\* HashMap::get: <<>> is None, <<v>> is Some(v)
get(map, key) == IF key \in DOMAIN map THEN <<map[key]>> ELSE <<>>

\* CommandRegistry::get_id, CommandRegistry::get_name
get_id(name) == get(name_to_id, name)
get_name(id) == get(id_to_name, id)

\* CommandRegistry::add(name, id)
add(name, id) ==
    /\ name_to_id' = insert(name_to_id, name, id)
    /\ id_to_name' = insert(id_to_name, id, name)

\* CommandRegistry::new
InitRegistry ==
    /\ name_to_id = <<>>
    /\ id_to_name = <<>>

Init ==
    /\ InitStepper /\ InitPlanner /\ InitSafety /\ InitHeater
    /\ InitParser /\ InitCodec /\ InitRegistry

(***************************************************************************)
(* Spec: the producer, start() and the timer interrupt, in any order       *)
(***************************************************************************)
ProducerEnqueue ==
    /\ \E m \in StepperMasks, d \in DirectionMasks, t \in Intervals :
          Enqueue(m, d, t)
    /\ UNCHANGED <<planner_vars, safety_vars, heater_vars>>
    /\ UNCHANGED proto_vars

Start ==
    /\ starts < MaxStarts
    /\ start
    /\ UNCHANGED <<planner_vars, safety_vars, heater_vars>>
    /\ UNCHANGED proto_vars

TimerInterrupt ==
    /\ on_timer_interrupt
    /\ UNCHANGED <<planner_vars, safety_vars, heater_vars>>
    /\ UNCHANGED proto_vars

Next == ProducerEnqueue \/ Start \/ TimerInterrupt

Spec == Init /\ [][Next]_vars


(***************************************************************************)
(* SpecPipeline: test_full_move_pipeline for every move of the bounds:     *)
(* plan_move; finalize; generate_steps; start; interrupts until drained    *)
(***************************************************************************)
\* the per-axis deltas of the planned move
Deltas ==
    {[i \in Axes |-> IF i = 0 THEN x ELSE IF i = 1 THEN y ELSE IF i = 2 THEN z
                     ELSE IF i = EXTRUDER_AXIS THEN e ELSE 0] :
        x \in -MaxDelta..MaxDelta, y \in -MaxDelta..MaxDelta, z \in {-2, 0},
        e \in {0, 1}}

PipePlanMove ==
    /\ pipe_pc = "plan"
    /\ \E d \in Deltas :
          LET target_pos == [i \in Axes |-> current_position[i] + d[i]]
          IN /\ PlanMove(target_pos, MoveParams)
             /\ planned' = [from |-> current_position, to |-> target_pos]
    /\ pipe_pc' = "finalize"
    /\ UNCHANGED <<stepper_vars, safety_vars, heater_vars>>
    /\ UNCHANGED proto_vars

PipeFinalize ==
    /\ pipe_pc = "finalize"
    /\ Finalize
    /\ pipe_pc' = "generate"
    /\ UNCHANGED <<planned, stepper_vars, safety_vars, heater_vars>>
    /\ UNCHANGED proto_vars

PipeGenerateSteps ==
    /\ pipe_pc = "generate"
    /\ GenerateSteps
    /\ pipe_pc' = "start"
    /\ UNCHANGED <<planned, positions,
                   current_directions, next_command, step_port, dir_port, timer,
                   dequeued, pulses, last_call, starts, safety_vars, heater_vars>>
    /\ UNCHANGED proto_vars

PipeStart ==
    /\ pipe_pc = "start"
    /\ start
    /\ pipe_pc' = "run"
    /\ UNCHANGED <<planner_vars_but_pc, safety_vars, heater_vars>>
    /\ UNCHANGED proto_vars

PipeInterrupt ==
    /\ pipe_pc = "run"
    /\ next_command # <<>>
    /\ on_timer_interrupt
    /\ UNCHANGED <<planner_vars, safety_vars, heater_vars>>
    /\ UNCHANGED proto_vars

NextPipeline ==
    PipePlanMove \/ PipeFinalize \/ PipeGenerateSteps \/ PipeStart \/ PipeInterrupt

SpecPipeline == Init /\ [][NextPipeline]_vars

PipelineDrained ==
    pipe_pc = "run" /\ next_command = <<>> /\ command_queue = <<>>

CartesianSteppers == (0..(EXTRUDER_AXIS - 1)) \cap Steppers

\* C2: once the planned move has been expanded and the interrupts have drained
\* the queue, the controller's position on each cartesian axis has changed by
\* that axis's planned step delta (target minus planner start position).
C2_PositionEqualsPlannedDelta ==
    PipelineDrained =>
        \A i \in CartesianSteppers : positions[i] = planned.to[i] - planned.from[i]

(***************************************************************************)
(* Claims about the stepper controller                                     *)
(***************************************************************************)
PulsedCommands == [i \in 1..Len(pulses) |-> pulses[i].cmd]
PulsedIds == [i \in 1..Len(pulses) |-> pulses[i].cmd.id]
StagedIds == IF next_command = <<>> THEN <<>> ELSE <<next_command[1].id>>

\* C1: after a single start(), the commands pulsed on the step port are a
\* prefix of the successfully enqueued commands, in the same order, with
\* none skipped, repeated or reordered.
C1_PulsesArePrefixOfEnqueued ==
    starts <= 1 => IsPrefix(PulsedCommands, enqueued)

\* C1 witness: one start(), commands enqueued before and after it, and at
\* least two of them pulsed while a third is still waiting.
C1_Witness ==
    /\ starts = 1
    /\ Len(pulses) >= 2
    /\ Len(enqueued) > Len(pulses)
    /\ pulses[1].cmd # pulses[2].cmd

\* C8: whenever the interrupt pulses a command c, the direction port holds
\* c.direction_mask, and the interrupt that pulses writes the direction port
\* only after the pulse (the write for c was made by an earlier call).
C8_DirectionSetBeforePulse ==
    /\ \A i \in 1..Len(pulses) : pulses[i].dir_port = pulses[i].cmd.direction_mask
    /\ \A i \in 1..Len(last_call.events) :
          last_call.events[i].dev = "step" =>
              \A j \in 1..(i - 1) : last_call.events[j].dev # "dir"

\* C8 witness: a pulse of a command whose direction differs from the initial
\* port value 0, after an earlier pulse with another direction.
C8_Witness ==
    /\ Len(pulses) >= 2
    /\ pulses[1].cmd.direction_mask # pulses[2].cmd.direction_mask
    /\ pulses[2].cmd.direction_mask # 0
    /\ last_call.op = "isr"
    /\ \E i \in 1..Len(last_call.events) : last_call.events[i].dev = "dir"

\* C9: an interrupt that executes the staged command c leaves the timer
\* stopped when the queue yields no further command, and otherwise scheduled
\* for c.interval_ticks (fired immediately when that is 0); an interrupt that
\* finds nothing staged emits no pulse and leaves the timer stopped.
C9_TimerAfterInterrupt ==
    last_call.op = "isr" =>
        IF last_call.executed # <<>>
        THEN LET c == last_call.executed[1]
             IN IF next_command = <<>>
                THEN timer.stopped
                ELSE /\ ~timer.stopped
                     /\ c.interval_ticks > 0 =>
                            (timer.scheduled_ticks = c.interval_ticks
                             /\ ~timer.triggered_now)
                     /\ c.interval_ticks = 0 => timer.triggered_now
        ELSE /\ timer.stopped
             /\ \A i \in 1..Len(last_call.events) :
                   last_call.events[i].dev # "step"

\* C9 witness: an interrupt executed a command with interval 0 while another
\* command with a different, non-zero interval was staged behind it.
C9_Witness ==
    /\ last_call.op = "isr"
    /\ last_call.executed # <<>>
    /\ last_call.executed[1].interval_ticks = 0
    /\ next_command # <<>>
    /\ next_command[1].interval_ticks > 0
    /\ timer.triggered_now

\* C10: every command the controller dequeued is pulsed exactly once: at any
\* time the dequeued commands are the pulsed ones followed by the staged one.
C10_DequeuedPulsedExactlyOnce ==
    dequeued = PulsedIds \o StagedIds

(***************************************************************************)
(* SpecSafety: the SafetyMonitor's operations in any order, as time passes *)
(***************************************************************************)
TimeSteps == {100, 500}
SafetyTemps == {-51, 25, 31, 301}
HeaterIds == {0, NUM_HEATERS}
FaultPinStates == {0, 1, 2}

SafetyAdvanceTime ==
    /\ \E d \in TimeSteps : AdvanceTime(d)
    /\ UNCHANGED <<stepper_vars, planner_vars, heater_vars>>
    /\ UNCHANGED proto_vars

SafetyCheckThermalState ==
    /\ \E h \in HeaterIds, temp \in SafetyTemps : CheckThermalState(h, temp)
    /\ UNCHANGED <<stepper_vars, planner_vars, heater_vars>>
    /\ UNCHANGED proto_vars

SafetyCheckStepperFaults ==
    /\ \E f \in FaultPinStates : CheckStepperFaults(f)
    /\ UNCHANGED <<stepper_vars, planner_vars, heater_vars>>
    /\ UNCHANGED proto_vars

SafetyTaskCheckIn ==
    /\ \E t \in ModelTasks : TaskCheckIn(t)
    /\ UNCHANGED <<stepper_vars, planner_vars, heater_vars>>
    /\ UNCHANGED proto_vars

SafetyCheckTaskStalls ==
    /\ CheckTaskStalls
    /\ UNCHANGED <<stepper_vars, planner_vars, heater_vars>>
    /\ UNCHANGED proto_vars

SafetyTriggerEmergencyStop ==
    /\ TriggerEmergencyStop
    /\ UNCHANGED <<stepper_vars, planner_vars, heater_vars>>
    /\ UNCHANGED proto_vars

SafetyFeedWatchdog ==
    /\ FeedWatchdog
    /\ UNCHANGED <<stepper_vars, planner_vars, heater_vars>>
    /\ UNCHANGED proto_vars

NextSafety ==
    \/ SafetyAdvanceTime
    \/ SafetyCheckThermalState
    \/ SafetyCheckStepperFaults
    \/ SafetyTaskCheckIn
    \/ SafetyCheckTaskStalls
    \/ SafetyTriggerEmergencyStop
    \/ SafetyFeedWatchdog

SpecSafety == Init /\ [][NextSafety]_vars

InSensorRange(temp) == temp >= min_temp_limit /\ temp <= max_temp_limit

\* C5: the emergency-stop flag is a latch: no SafetyMonitor operation, in any
\* order and at any time, takes it from set back to clear.
C5_EmergencyStopIsLatch ==
    [][emergency_stop_active => emergency_stop_active']_vars

\* C5 witness: the flag is still set after trigger_emergency_stop was called
\* with the flag already set.
C5_Witness ==
    /\ safety_call.op = "trigger_emergency_stop"
    /\ safety_call.before
    /\ emergency_stop_active

\* C6: when a safety check returns having detected a fault, the flag is set:
\* a temperature below or above the sensor limits or rising too fast on a
\* monitored heater, a non-zero stepper fault mask, a task past its deadline.
\* A check_task_stalls that sets the flag has found a task past its deadline.
C6_DetectedFaultSetsFlag ==
    /\ (safety_call.op = "check_thermal_state" /\ safety_call.arg \in ModelHeaters
        /\ ~InSensorRange(safety_call.temp))
           => (safety_call.result \in {"TempTooLow", "TempTooHigh"}
               /\ emergency_stop_active)
    /\ (safety_call.op = "check_thermal_state"
        /\ safety_call.result \notin {"Ok", "None"}) => emergency_stop_active
    /\ (safety_call.op = "check_stepper_faults" /\ safety_call.arg # 0)
           => emergency_stop_active
    /\ safety_call.op = "check_task_stalls" =>
           /\ StalledTasks(last_check_in, now) # {} => emergency_stop_active
           /\ (emergency_stop_active /\ ~safety_call.before)
                  => StalledTasks(last_check_in, now) # {}

\* C6 witness: check_task_stalls has just set the flag because one task is
\* past its deadline while the other checked in within its own.
C6_Witness ==
    /\ safety_call.op = "check_task_stalls"
    /\ ~safety_call.before
    /\ emergency_stop_active
    /\ StalledTasks(last_check_in, now) = {0}
    /\ last_check_in[1] > 0

\* C7: two consecutive in-range checks of a heater more than 100 ms apart,
\* the temperature rising faster than max_rate_celsius_per_sec between them,
\* make the second return ThermalRunaway; the first check may be the first
\* ever and may be made at time 0.
C7_RunawayOnSecondCheck ==
    (/\ safety_call.op = "check_thermal_state"
     /\ safety_call.arg \in ModelHeaters
     /\ safety_call.prev.time >= 0
     /\ InSensorRange(safety_call.prev.temp)
     /\ InSensorRange(safety_call.temp)
     /\ now - safety_call.prev.time > 100
     /\ (safety_call.temp - safety_call.prev.temp) * 1000
            > max_rate_celsius_per_sec * (now - safety_call.prev.time))
        => safety_call.result = "ThermalRunaway"

\* the same for a first check made after time 0
RunawayOnSecondCheckAfterBoot ==
    (/\ safety_call.op = "check_thermal_state"
     /\ safety_call.arg \in ModelHeaters
     /\ safety_call.prev.time > 0
     /\ InSensorRange(safety_call.prev.temp)
     /\ InSensorRange(safety_call.temp)
     /\ now - safety_call.prev.time > 100
     /\ (safety_call.temp - safety_call.prev.temp) * 1000
            > max_rate_celsius_per_sec * (now - safety_call.prev.time))
        => safety_call.result = "ThermalRunaway"

(***************************************************************************)
(* SpecHeater: heater_task's loop, with other tasks storing temperatures   *)
(* and triggering the emergency stop between its steps                     *)
(***************************************************************************)
\* temperatures in whole degrees, as Fixed16_16
TargetTemps == {from_float(t, 1) : t \in {0, 310}}
CurrentTemps == {from_float(t, 1) : t \in {25, 300, 301}}

HeaterLoopIteration ==
    /\ HeaterIteration
    /\ UNCHANGED <<stepper_vars, planner_vars>>
    /\ UNCHANGED proto_vars

HeaterTickerNext ==
    /\ TickerNext
    /\ UNCHANGED <<stepper_vars, planner_vars>>
    /\ UNCHANGED proto_vars

HeaterSetTargetTemp ==
    /\ \E t \in TargetTemps : SetTargetTemp(t)
    /\ UNCHANGED <<stepper_vars, planner_vars>>
    /\ UNCHANGED proto_vars

HeaterSetCurrentTemp ==
    /\ \E t \in CurrentTemps : SetCurrentTemp(t)
    /\ UNCHANGED <<stepper_vars, planner_vars>>
    /\ UNCHANGED proto_vars

HeaterTriggerEmergencyStop ==
    /\ TriggerEmergencyStop
    /\ UNCHANGED <<stepper_vars, planner_vars, heater_vars>>
    /\ UNCHANGED proto_vars

NextHeater ==
    \/ HeaterLoopIteration
    \/ HeaterTickerNext
    \/ HeaterSetTargetTemp
    \/ HeaterSetCurrentTemp
    \/ HeaterTriggerEmergencyStop

SpecHeater == Init /\ [][NextHeater]_vars

\* C3: a heater duty written while the emergency-stop flag is set is 0,
\* whatever set the flag (trigger_emergency_stop or a safety check).
C3_DutyZeroOnceStopped ==
    (heater_log.wrote /\ heater_log.estop_at_write) => heater_log.duty = 0

\* C4: a loop iteration of heater_task that starts with the flag set writes
\* duty 0, so the duty is 0 from the first iteration after the flag was set.
C4_NextIterationWritesZero ==
    (heater_log.wrote /\ heater_log.estop_at_top) =>
        (heater_log.duty = 0 /\ pwm_duty = 0)

\* C4 witness: the heater was on with the target above the temperature when
\* an iteration found the flag set and wrote duty 0.
C4_Witness ==
    /\ heater_log.wrote
    /\ heater_log.estop_at_top
    /\ heater_log.was_heating
    /\ target_temp > current_temp
    /\ pwm_duty = 0

(***************************************************************************)
(* SpecPlanner: plan_move, finalize and generate_steps in any order        *)
(***************************************************************************)
\* the k-th move planned: one step along X, every third one along Y
PlanDelta(k) ==
    [i \in Axes |-> IF i = 0 /\ k % 3 # 0 THEN 1
                    ELSE IF i = 1 /\ k % 3 = 0 THEN 1 ELSE 0]
ZeroDelta == [i \in Axes |-> 0]

PlannerPlanMove ==
    /\ placed < MaxMoves
    /\ \E d \in {PlanDelta(placed + 1), ZeroDelta} :
          PlanMove([i \in Axes |-> current_position[i] + d[i]], MoveParams)
    /\ UNCHANGED <<planned, pipe_pc, stepper_vars, safety_vars, heater_vars>>
    /\ UNCHANGED proto_vars

PlannerFinalize ==
    /\ plan_call.drains < MaxDrains
    /\ Finalize
    /\ UNCHANGED <<planned, pipe_pc, stepper_vars, safety_vars, heater_vars>>
    /\ UNCHANGED proto_vars

PlannerGenerateSteps ==
    /\ plan_call.drains < MaxDrains
    /\ GenerateSteps
    /\ UNCHANGED <<planned, pipe_pc, positions, current_directions, next_command,
                   step_port, dir_port, timer, dequeued, pulses, last_call,
                   starts, safety_vars, heater_vars>>
    /\ UNCHANGED proto_vars

NextPlanner == PlannerPlanMove \/ PlannerFinalize \/ PlannerGenerateSteps

SpecPlanner == Init /\ [][NextPlanner]_vars

(***************************************************************************)
(* SpecQueueFull: test_queue_full_error, plan_move called again and again  *)
(* without draining move_queue                                             *)
(***************************************************************************)
QueueFullPlanMove ==
    /\ placed < MaxPlaced
    /\ \E d \in {PlanDelta(placed + 1), ZeroDelta} :
          PlanMove([i \in Axes |-> current_position[i] + d[i]], MoveParams)
    /\ UNCHANGED <<planned, pipe_pc, stepper_vars, safety_vars, heater_vars>>
    /\ UNCHANGED proto_vars

NextQueueFull == QueueFullPlanMove

SpecQueueFull == Init /\ [][NextQueueFull]_vars

\* C12: as long as only plan_move has been called, the n-th plan_move with a
\* non-zero move returns Ok when n is at most 72 (8 lookahead slots plus 64
\* finalised slots) and QueueFull when n is larger.
C12_First72PlanMovesSucceed ==
    (plan_call.op = "plan_move" /\ ~plan_call.zero_length /\ plan_call.drains = 0)
        => (plan_call.result = "Ok"
                <=> plan_call.plan_moves <= LOOKAHEAD_SLOTS + MOVE_QUEUE_SLOTS)

\* C13: the segments plan_move placed in the lookahead queue are, in plan
\* order, those generate_steps has dequeued, then those in move_queue, then
\* those in lookahead_queue: none is lost, duplicated or reordered.
C13_SegmentsConsumedOnceInOrder ==
    expanded \o SegmentIds(move_queue) \o SegmentIds(lookahead_queue)
        = [i \in 1..placed |-> i]

\* C14: when finalize() has returned Ok the lookahead queue is empty, the
\* segments it held are the last ones of move_queue, in plan order, and the
\* last planned segment has end_v = 0.
C14_FinalizeDrainsLookahead ==
    (plan_call.op = "finalize" /\ plan_call.result = "Ok") =>
        /\ lookahead_queue = <<>>
        /\ Len(plan_call.held) <= Len(move_queue)
        /\ SubSeq(SegmentIds(move_queue),
                  Len(move_queue) - Len(plan_call.held) + 1, Len(move_queue))
               = plan_call.held
        /\ plan_call.held # <<>> =>
               /\ move_queue[Len(move_queue)].id = placed
               /\ move_queue[Len(move_queue)].end_v = 0

\* C14 witness: finalize() returned Ok after moving the last planned segment
\* behind two earlier ones, the first of which ends at a junction velocity.
C14_Witness ==
    /\ plan_call.op = "finalize"
    /\ plan_call.result = "Ok"
    /\ plan_call.held # <<>>
    /\ Len(move_queue) >= 3
    /\ move_queue[1].end_v > 0
    /\ lookahead_queue = <<>>

\* C15: a plan_move whose target is current_position (no cartesian distance,
\* no extruder steps) returns InvalidMove and leaves lookahead_queue,
\* move_queue and current_position as they were.
C15_ZeroLengthMoveIsInvalid ==
    [][(plan_call'.op = "plan_move" /\ plan_call'.zero_length)
           => (plan_call'.result = "InvalidMove"
               /\ UNCHANGED <<lookahead_queue, move_queue, current_position>>)]_vars


(***************************************************************************)
(* SpecFeed: the planner task feeds the step queue, one move at a time     *)
(* (plan_move; finalize; generate_steps), while start() and the timer      *)
(* interrupt drain it at any pace                                          *)
(***************************************************************************)
\* the move of the feeding task: LongMoveSteps steps on X
LongDelta == [i \in Axes |-> IF i = 0 THEN LongMoveSteps ELSE 0]

FeedPlanMove ==
    /\ pipe_pc = "plan"
    /\ placed < MaxLongMoves
    /\ PlanMove([i \in Axes |-> current_position[i] + LongDelta[i]], MoveParams)
    /\ pipe_pc' = "finalize"
    /\ UNCHANGED <<planned, stepper_vars, safety_vars, heater_vars>>
    /\ UNCHANGED proto_vars

FeedFinalize ==
    /\ pipe_pc = "finalize"
    /\ Finalize
    /\ pipe_pc' = "generate"
    /\ UNCHANGED <<planned, stepper_vars, safety_vars, heater_vars>>
    /\ UNCHANGED proto_vars

FeedGenerateSteps ==
    /\ pipe_pc = "generate"
    /\ GenerateSteps
    /\ pipe_pc' = "plan"
    /\ UNCHANGED <<planned, positions,
                   current_directions, next_command, step_port, dir_port, timer,
                   dequeued, pulses, last_call, starts, safety_vars, heater_vars>>
    /\ UNCHANGED proto_vars

FeedStart ==
    /\ starts = 0
    /\ start
    /\ UNCHANGED <<planner_vars, safety_vars, heater_vars>>
    /\ UNCHANGED proto_vars

FeedInterrupt ==
    /\ starts > 0
    /\ next_command # <<>>
    /\ on_timer_interrupt
    /\ UNCHANGED <<planner_vars, safety_vars, heater_vars>>
    /\ UNCHANGED proto_vars

NextFeed ==
    FeedPlanMove \/ FeedFinalize \/ FeedGenerateSteps \/ FeedStart \/ FeedInterrupt

SpecFeed == Init /\ [][NextFeed]_vars

\* C11: a generate_steps call that finds a finalised segment returns Ok and
\* enqueues exactly total_steps step commands, however full the step queue is
\* and however far the interrupt has drained it.
C11_GenerateStepsNeverFails ==
    [][(/\ plan_call'.op = "generate_steps"
        /\ plan_call'.drains # plan_call.drains
        /\ move_queue # <<>>)
           => (/\ plan_call'.result = "Ok"
               /\ Len(enqueued') = Len(enqueued) + Head(move_queue).total_steps)]_vars


(***************************************************************************)
(* SpecParser: bytes arrive from the host, then the caller runs its        *)
(* receive loop on them                                                    *)
(***************************************************************************)
\* <<seq, command_id, payload>> of the frames of protocol_parser_tests.rs
\* (GetConfig, GetStatus, QueueStep) and of an Identify frame with a
\* dict_version of LongPayloadLen bytes
GetConfigFrame == <<1, 2, <<>>>>
TestFrames ==
    {GetConfigFrame, <<3, 3, <<>>>>, <<2, 16, <<0, 0, 39, 16, 0, 1, 0, 0>>>>,
     <<8, 1, [i \in 1..LongPayloadLen |-> 48 + i]>>}
FrameOf == [f \in TestFrames |-> build_test_frame(f[1], f[2], f[3])]
Frame(f) == FrameOf[f]
FramesBytes(fs) == IF fs = <<>> THEN <<>> ELSE Frame(fs[1])

\* bytes without a sync byte
Zeros(m) == [i \in 1..m |-> 0]
NoiseSet == {<<>>, <<0>>, <<0, 1, 2, 3>>}

\* frame[at] ^= 0xFF
Corrupt(frame, at) == [frame EXCEPT ![at + 1] = 255 - frame[at + 1]]

\* 27 bytes followed by the CRC Parser::parse computes over them
Seal(bytes) == bytes \o to_be_bytes(crc16_ccitt(bytes, Len(bytes)))

\* arbitrary input: nothing; a sync byte as the last byte; a sync byte, every
\* value of the next byte and a short or a long rest; 29 bytes that carry
\* their CRC, for every command id parse_command knows and one it does not
RawInputs ==
    {<<>>}
    \cup {Zeros(m) \o <<SYNC_BYTE>> : m \in {0, 1, 3}}
    \cup {<<SYNC_BYTE, l>> \o Zeros(m) : l \in 0..255, m \in {0, 2}}
    \cup {<<SYNC_BYTE, l>> \o Zeros(m) :
              l \in {0, 1, 2, 3, 4, 28, 29, 30, 31, 255}, m \in {1, 3, 26, 27, 28}}
    \cup {Seal(<<SYNC_BYTE, id>> \o Zeros(25)) \o Zeros(m) :
              id \in {1, 2, 3, 16, 32, 33, 127}, m \in {0, 1}}

ReceiveFrames ==
    /\ \E noise \in NoiseSet, f \in TestFrames,
          t \in {<<>>} \cup {<<g>> : g \in TestFrames} :
          Receive(noise \o Frame(f) \o FramesBytes(t),
                  RxInput("frames", noise, f, t, 0))
    /\ UNCHANGED <<stepper_vars, planner_vars, safety_vars, heater_vars,
                   codec_vars, registry_vars>>

ReceiveCorrupted ==
    /\ \E noise \in NoiseSet, f \in TestFrames, tail \in {<<>>, Zeros(25)} :
          \E at \in 2..(Len(Frame(f)) - 1) :
              Receive(noise \o Corrupt(Frame(f), at) \o tail,
                      RxInput("corrupted", noise, f, tail, at))
    /\ UNCHANGED <<stepper_vars, planner_vars, safety_vars, heater_vars,
                   codec_vars, registry_vars>>

ReceivePrefix ==
    /\ \E f \in TestFrames :
          \E at \in 1..(Len(Frame(f)) - 1) :
              Receive(Slice(Frame(f), 0, at), RxInput("prefix", <<>>, f, <<>>, at))
    /\ UNCHANGED <<stepper_vars, planner_vars, safety_vars, heater_vars,
                   codec_vars, registry_vars>>

ReceiveRaw ==
    /\ \E bytes \in RawInputs :
          Receive(bytes, RxInput("raw", <<>>, <<>>, <<>>, 0))
    /\ UNCHANGED <<stepper_vars, planner_vars, safety_vars, heater_vars,
                   codec_vars, registry_vars>>

ParserParse ==
    /\ ParseAndAdvance
    /\ UNCHANGED <<stepper_vars, planner_vars, safety_vars, heater_vars,
                   codec_vars, registry_vars>>

NextParser ==
    ReceiveFrames \/ ReceiveCorrupted \/ ReceivePrefix \/ ReceiveRaw \/ ParserParse

SpecParser == Init /\ [][NextParser]_vars

\* the command a frame's CMD_ID and payload denote
Denoted(f) == parse_command(<<f[2]>> \o f[3]).command

\* C16: from noise ++ F ++ tail, noise without a sync byte and F well-formed,
\* the first parse returns F's command and consumed = len(noise) + len(F), and
\* when the tail is a frame the parse that follows returns that frame.
C16_ParsesFrameAfterNoise ==
    (rx_input.kind = "frames" /\ Len(parse_log) >= 1) =>
        /\ parse_log[1] = ParsedMessage(Denoted(rx_input.frame),
                              Len(rx_input.noise) + Len(Frame(rx_input.frame)))
        /\ (Len(parse_log) >= 2 /\ rx_input.tail # <<>>) =>
               parse_log[2] = ParsedMessage(Denoted(rx_input.tail[1]),
                                            Len(Frame(rx_input.tail[1])))

\* C17: a buffered complete frame whose CRC field does not match its bytes
\* makes parse return (InvalidCrc, sync_pos + 1).
C17_BadCrcDiscardsSyncByte ==
    (rx_input.kind = "corrupted" /\ Len(parse_log) >= 1) =>
        parse_log[1] = ParseError("InvalidCrc", Len(rx_input.noise) + 1)

\* C18: fed a corrupted GetConfig frame, parse reports InvalidCrc, and after
\* the caller advanced by the count returned the next parse, on the rest of
\* the frame, returns Ok(None).
C18_IncompleteAfterBadCrc ==
    (/\ rx_input.kind = "corrupted" /\ rx_input.frame = GetConfigFrame
     /\ rx_input.noise = <<>> /\ rx_input.tail = <<>>
     /\ Len(parse_log) >= 1) =>
        /\ parse_log[1].kind = "Err" /\ parse_log[1].error = "InvalidCrc"
        /\ Len(parse_log) >= 2 => parse_log[2] = Incomplete

\* C19: parse of a strict prefix of a well-formed frame returns Ok(None).
C19_StrictPrefixIsIncomplete ==
    (rx_input.kind = "prefix" /\ Len(parse_log) >= 1) => parse_log[1] = Incomplete

\* C20: no parse call panics (no index or slice outside its input), whatever
\* the bytes.
C20_ParseNeverPanics ==
    \A i \in 1..Len(parse_log) : parse_log[i].kind # "Panic"

C20_Witness ==
    /\ rx_input.kind = "raw"
    /\ Len(parse_log) = MaxParses
    /\ parse_log[1].kind = "Message"
    /\ parse_log[1].n > 0

(***************************************************************************)
(* SpecCodec: KlipperCodec's encode and decode on one buffer               *)
(***************************************************************************)
MaxTextLen == 2         \* length of the short G-code texts
LongTextLen == 249      \* text length whose frame has the largest length byte
MaxFrames == 2          \* frames encoded into, or received in, one buffer
MaxDecodes == 4         \* decode calls in a run

\* 0x7E, 0x7D, the bytes their escapes are made of, and 'G'
TextBytes == {126, 125, 94, 93, 71}
Texts == UNION {[1..k -> TextBytes] : k \in 0..MaxTextLen}
LongText == [i \in 1..LongTextLen |-> 71]
\* one byte shorter, with one byte to escape
LongEscapedText == [i \in 1..(LongTextLen - 1) |-> IF i = 1 THEN 126 ELSE 71]

CodecMessages ==
    {Message("Command", "GetConfig", <<>>), Message("Command", "EmergencyStop", <<>>),
     Message("Response", "GCodeOk", <<>>), Message("Response", "GCodeError", <<71>>),
     Message("Command", "GCode", LongText),
     Message("Command", "GCode", LongEscapedText)}
    \cup {Message("Command", "GCode", t) : t \in Texts}

\* the messages of a second frame, and of the frames of a stream
StreamMessages ==
    {Message("Command", "GetConfig", <<>>), Message("Command", "EmergencyStop", <<>>),
     Message("Command", "GCode", <<71, 126>>)}

\* garbage without a sync byte (decode_stream_with_leading_noise has the first)
CodecNoiseSet == {<<222, 173, 190, 239>>, <<0>>}

\* the bytes a corrupted byte b may turn into
CorruptBytes(b) ==
    {0, 1, 126} \cup {(b + d) % 256 : d \in {1, 2, 32, 255}}

\* buffers of raw bytes: a header with any small length byte, with and
\* without bytes after it (decode_incomplete_frame_returns_none has the last)
RawBuffers ==
    {<<126, l, c>> \o rest :
        l \in 0..5, c \in {0, 7},
        rest \in {<<>>, <<1>>, <<125>>, <<0, 0>>, <<1, 125>>, <<126, 2, 0>>}}
    \cup {<<>>, <<126>>, <<126, 0>>, <<0, 126>>, <<126, 10, 0, 1, 2, 3>>}

CodecPutNoise ==
    /\ \E noise \in CodecNoiseSet : CodecNoise(noise)
    /\ UNCHANGED <<stepper_vars, planner_vars, safety_vars, heater_vars,
                   parser_vars, registry_vars>>

CodecEncodeMessage ==
    /\ Len(codec_sent.messages) < MaxFrames
    /\ \E m \in IF codec_sent.messages = <<>> THEN CodecMessages ELSE StreamMessages :
          CodecEncode(m)
    /\ UNCHANGED <<stepper_vars, planner_vars, safety_vars, heater_vars,
                   parser_vars, registry_vars>>

CodecReceive ==
    /\ Len(codec_sent.messages) < MaxFrames
    /\ \E m \in StreamMessages : CodecReceiveFrame(m)
    /\ UNCHANGED <<stepper_vars, planner_vars, safety_vars, heater_vars,
                   parser_vars, registry_vars>>

CodecCorruptByte ==
    /\ codec_sent.mode = "stream"
    /\ codec_log = <<>>
    /\ \E k \in 1..Len(codec_sent.messages) :
       \E at \in 0..(Len(StreamFrame(k)) - 1) :
       \E b \in CorruptBytes(At(codec_buf, StreamOffset(k) + at)) :
          CodecCorrupt(k, at, b)
    /\ UNCHANGED <<stepper_vars, planner_vars, safety_vars, heater_vars,
                   parser_vars, registry_vars>>

CodecFromBytes ==
    /\ \E bytes \in RawBuffers : CodecRaw(bytes)
    /\ UNCHANGED <<stepper_vars, planner_vars, safety_vars, heater_vars,
                   parser_vars, registry_vars>>

CodecDecodeNext ==
    /\ Len(codec_log) < MaxDecodes
    /\ CodecDecode
    /\ UNCHANGED <<stepper_vars, planner_vars, safety_vars, heater_vars,
                   parser_vars, registry_vars>>

NextCodec ==
    \/ CodecPutNoise \/ CodecEncodeMessage \/ CodecReceive
    \/ CodecCorruptByte \/ CodecFromBytes \/ CodecDecodeNext

SpecCodec == Init /\ [][NextCodec]_vars

\* the messages the decode calls returned, in order
RECURSIVE ReturnedFrom(_)
ReturnedFrom(log) ==
    IF log = <<>> THEN <<>>
    ELSE IF Head(log).kind = "Some"
    THEN <<Head(log).message>> \o ReturnedFrom(Tail(log))
    ELSE ReturnedFrom(Tail(log))

\* s without its k-th element
Without(s, k) == SubSeq(s, 1, k - 1) \o SubSeq(s, k + 1, Len(s))

\* C21: from an empty buffer, encode(m) followed by decode returns exactly m
\* and leaves the buffer empty, for every message whose frame fits in 255
\* bytes, texts with 0x7E or 0x7D included.
C21_RoundTripFromEmptyBuffer ==
    (/\ codec_sent.mode = "encoded" /\ codec_sent.noise = <<>>
     /\ Len(codec_sent.messages) = 1 /\ codec_sent.results[1] = "Ok"
     /\ Len(codec_log) >= 1) =>
        codec_log[1] = Decoded("Some", codec_sent.messages[1], "none", <<>>)

C21_Witness ==
    /\ codec_sent.mode = "encoded" /\ codec_sent.noise = <<>>
    /\ Len(codec_sent.messages) = 1 /\ codec_sent.results[1] = "Ok"
    /\ codec_sent.messages[1].text = <<126, 125>>
    /\ Len(codec_log) >= 1
    /\ codec_log[1].kind = "Some"
    /\ codec_buf = <<>>

\* C22: encode appends one self-contained frame whatever dst holds: the
\* bytes already there are unchanged and the new frame's length byte counts
\* the new frame only; so the decode calls on noise or earlier frames
\* followed by an encoded frame return the encoded messages.
C22_EncodeAppendsSelfContainedFrame ==
    (/\ codec_sent.mode = "encoded" /\ codec_sent.messages # <<>>
     /\ \A k \in 1..Len(codec_sent.results) : codec_sent.results[k] = "Ok") =>
        LET before == codec_sent.before
            after == codec_sent.after
            frame == Slice(after, Len(before), Len(after))
        IN /\ IsPrefix(before, after)
           /\ At(frame, 1) = Len(frame) - 1
           /\ \A k \in 1..Min(Len(codec_log), Len(codec_sent.messages)) :
                 /\ codec_log[k].kind = "Some"
                 /\ codec_log[k].message = codec_sent.messages[k]

\* C23: with one byte of one frame of a stream corrupted, the decode calls
\* return the messages of all the other frames, in order, and nothing else.
C23_CorruptedFrameLosesNoLaterFrame ==
    (/\ codec_sent.mode = "stream" /\ codec_sent.corrupt # <<>>
     /\ codec_log # <<>>
     /\ codec_log[Len(codec_log)].kind \in {"None", "Panic"}) =>
        ReturnedFrom(codec_log) = Without(codec_sent.messages, codec_sent.corrupt[1].frame)

\* C24: no decode call panics, whatever the bytes in the buffer.
C24_DecodeNeverPanics ==
    \A i \in 1..Len(codec_log) : codec_log[i].kind # "Panic"

(***************************************************************************)
(* SpecRegistry: any sequence of CommandRegistry::add calls                *)
(***************************************************************************)
MaxCommandId == 2       \* the ids given to add are 0..MaxCommandId
CommandIds == 0..MaxCommandId
CommandNames == {"identify", "get_config", "queue_step"}

RegistryAdd ==
    /\ \E name \in CommandNames, id \in CommandIds : add(name, id)
    /\ UNCHANGED <<stepper_vars, planner_vars, safety_vars, heater_vars,
                   parser_vars, codec_vars>>

NextRegistry == RegistryAdd

SpecRegistry == Init /\ [][NextRegistry]_vars

\* C27: after any sequence of add calls the two lookups are mutually
\* inverse: get_id(n) = Some(i) exactly when get_name(i) = Some(n).
C27_LookupsAreMutuallyInverse ==
    \A n \in CommandNames, i \in CommandIds :
        /\ get_id(n) = <<i>> => get_name(i) = <<n>>
        /\ get_name(i) = <<n>> => get_id(n) = <<i>>


(***************************************************************************)
(* SpecShaper: test_input_shaping_zv_application for the moves and shapers *)
(* of the bounds: plan_move; finalize; a shaper attached to the segment,   *)
(* or none; generate_steps                                                 *)
(***************************************************************************)
MaxShapedSteps == 34    \* steps of the dominant axis of the shaped move
ShaperFrequency == 40   \* Hz, as in the test

\* the move: n steps along X, none or half as many along Y
ShapedDeltas ==
    {[i \in Axes |-> IF i = 0 THEN n ELSE IF i = 1 THEN y * (n \div 2) ELSE 0] :
        n \in 1..MaxShapedSteps, y \in {0, 1}}

Shapers ==
    {InputShaper_new(type, f) :
        type \in {"None", "ZV", "MZV", "EI", "ZVD"}, f \in {ShaperFrequency}}

ShaperPlanMove ==
    /\ pipe_pc = "plan"
    /\ current_position = [i \in Axes |-> 0]
    /\ \E d \in ShapedDeltas :
          /\ PlanMove(d, MoveParams)
          /\ planned' = [from |-> current_position, to |-> d]
    /\ pipe_pc' = "finalize"
    /\ UNCHANGED <<stepper_vars, safety_vars, heater_vars>>
    /\ UNCHANGED proto_vars

ShaperFinalize ==
    /\ pipe_pc = "finalize"
    /\ Finalize
    /\ pipe_pc' = "shape"
    /\ UNCHANGED <<planned, stepper_vars, safety_vars, heater_vars>>
    /\ UNCHANGED proto_vars

ShaperAttach ==
    /\ pipe_pc = "shape"
    /\ \E shaper \in Shapers : AttachShaper(shaper)
    /\ pipe_pc' = "generate"
    /\ UNCHANGED <<planned, stepper_vars, safety_vars, heater_vars>>
    /\ UNCHANGED proto_vars

ShaperGenerateSteps ==
    /\ pipe_pc \in {"shape", "generate"}
    /\ move_queue # <<>>
    /\ GenerateSteps
    /\ pipe_pc' = "start"
    /\ UNCHANGED <<planned, positions,
                   current_directions, next_command, step_port, dir_port, timer,
                   dequeued, pulses, last_call, starts, safety_vars, heater_vars>>
    /\ UNCHANGED proto_vars

NextShaper ==
    ShaperPlanMove \/ ShaperFinalize \/ ShaperAttach \/ ShaperGenerateSteps

SpecShaper == Init /\ [][NextShaper]_vars

\* C25: no StepCommand emitted by generate_steps has interval_ticks = 0,
\* shaped or unshaped, whatever the velocity at the step.
C25_NoZeroInterval ==
    \A k \in 1..Len(enqueued) : enqueued[k].interval_ticks >= 1

\* C26: for a segment with a shaper of K impulses and N dominant-axis steps,
\* generate_steps returns Ok and emits exactly K * N StepCommands.
C26_ShapedSegmentEmitsKTimesN ==
    [][(/\ pipe_pc = "generate" /\ pipe_pc' = "start"
        /\ move_queue # <<>> /\ Head(move_queue).shaper # <<>>) =>
           /\ gen_result' = "Ok"
           /\ Len(enqueued') = Len(enqueued)
                  + Head(move_queue).shaper[1].num_impulses
                    * Head(move_queue).total_steps]_vars

\* the number of commands generate_steps emitted whose mask pulses axis i
PulsesEmitted(i) ==
    Cardinality({k \in 1..Len(enqueued) : Bit(enqueued[k].stepper_mask, i) = 1})

\* C30: over the N calls of bresenham_step made for one segment, every
\* non-extruder axis i is pulsed exactly |steps[i]| times.
C30_BresenhamPulsesEachAxisDeltaTimes ==
    (pipe_pc = "start" /\ gen_result = "Ok") =>
        \A i \in Axes \ {EXTRUDER_AXIS} :
            PulsesEmitted(i) = Abs(planned.to[i] - planned.from[i])


(***************************************************************************)
(* SpecPid: a PidController made with PidController::new and updated, as   *)
(* heater_tests.rs does                                                    *)
(***************************************************************************)
MaxUpdates == 2         \* update calls on one controller

\* kp, ki, kd as num / den and output_max: the controllers of heater_tests.rs
\* and of heater_task, a small ki, and the largest and smallest output_max
PidConfigs ==
    {<<<<10, 1>>, <<0, 1>>, <<0, 1>>, 1000>>,
     <<<<0, 1>>, <<2, 1>>, <<0, 1>>, 1000>>,
     <<<<1, 10>>, <<50, 1>>, <<0, 1>>, 1000>>,
     <<<<0, 1>>, <<0, 1>>, <<3, 1>>, 1000>>,
     <<<<10, 1>>, <<1, 10>>, <<8, 1>>, 1000>>,
     <<<<0, 1>>, <<1, 100>>, <<0, 1>>, 1000>>,
     <<<<1, 1>>, <<1, 1>>, <<0, 1>>, 65535>>,
     <<<<1, 2>>, <<1, 1>>, <<0, 1>>, 1>>}

\* errors in degrees Celsius, and dt in seconds as num / den
PidErrors == {-50, 0, 1, 5, 150}
PidDeltas == {<<1, 10>>, <<1, 2>>, <<1, 1>>}

PidMake ==
    /\ pid_call.op = "none"
    /\ \E c \in PidConfigs :
          PidNew(from_float(c[1][1], c[1][2]), from_float(c[2][1], c[2][2]),
                 from_float(c[3][1], c[3][2]), c[4])
    /\ UNCHANGED <<stepper_vars, planner_vars, safety_vars, proto_vars>>

PidStep ==
    /\ pid_call.op # "none"
    /\ pid_call.updates < MaxUpdates
    /\ \E e \in PidErrors, d \in PidDeltas : PidUpdate(e * SCALE, from_float(d[1], d[2]))
    /\ UNCHANGED <<stepper_vars, planner_vars, safety_vars, proto_vars>>

NextPid == PidMake \/ PidStep

SpecPid == Init /\ [][NextPid]_vars

\* C28: update returns a duty within 0..=output_max: output_max when the sum
\* of the three terms is at or above output_max, 0 when it is at or below 0,
\* and otherwise the integer part of the sum, within 1.
C28_DutyIsClampedIntegerPart ==
    pid_call.op = "update" =>
        /\ pid_call.duty \in 0..pid_call.output_max
        /\ pid_call.output >= pid.output_max => pid_call.duty = pid_call.output_max
        /\ pid_call.output <= 0 => pid_call.duty = 0
        /\ (pid_call.output > 0 /\ pid_call.output < pid.output_max) =>
               Abs(pid_call.duty - pid_call.output \div SCALE) <= 1

\* C29: after every update the integral lies in [-integral_max, integral_max],
\* and integral_max is output_max / ki (within one unit of output), 0 for
\* ki = 0.
C29_IntegralWithinOutputMaxOverKi ==
    pid_call.op = "update" =>
        /\ pid.integral >= -pid.integral_max
        /\ pid.integral <= pid.integral_max
        /\ IF pid.ki = 0 THEN pid.integral_max = 0
           ELSE Abs(fx_mul(pid.ki, pid.integral_max) \div SCALE
                    - pid_call.output_max) <= 1

(***************************************************************************)
(* Further claims about the stepper controller (Spec)                      *)
(***************************************************************************)
\* C31: a start() that finds a command in the queue dequeues the first one
\* and stages it, leaves the direction port holding its direction bits, emits
\* no step pulse, leaves every position counter unchanged and schedules the
\* timer for max(first.interval_ticks, 100) ticks; a start() that finds the
\* queue empty stages nothing and does not touch the timer.
C31_StartStagesFirstCommand ==
    [][(starts' = starts + 1) =>
          /\ pulses' = pulses
          /\ step_port' = step_port
          /\ positions' = positions
          /\ \A i \in 1..Len(last_call'.events) : last_call'.events[i].dev # "step"
          /\ IF command_queue # <<>>
             THEN LET first == Head(command_queue)
                  IN /\ command_queue' = Tail(command_queue)
                     /\ dequeued' = Append(dequeued, first.id)
                     /\ next_command' = <<first>>
                     /\ dir_port' = first.direction_mask
                     /\ current_directions' = first.direction_mask
                     /\ timer' = schedule_next(timer,
                                     IF first.interval_ticks > 100
                                     THEN first.interval_ticks ELSE 100)
             ELSE /\ next_command' = <<>>
                  /\ command_queue' = <<>>
                  /\ dequeued' = dequeued
                  /\ timer' = timer
                  /\ last_call'.events = <<>>]_vars

\* C31 witness: start() staged a command with interval 0 and a direction
\* other than the port's initial value, and the timer waits 100 ticks; no
\* pulse has been made.
C31_Witness ==
    /\ last_call.op = "start"
    /\ next_command # <<>>
    /\ next_command[1].interval_ticks = 0
    /\ next_command[1].direction_mask = 1
    /\ dir_port = 1
    /\ timer.scheduled_ticks = 100
    /\ ~timer.stopped
    /\ pulses = <<>>
    /\ command_queue # <<>>

(***************************************************************************)
(* Further claims about generate_steps (SpecPipeline, SpecShaper)          *)
(***************************************************************************)
\* total_time of generate_steps
TotalTime(segment) ==
    segment.t_j1 + segment.t_a + segment.t_j2 + segment.t_c
    + segment.t_j3 + segment.t_d + segment.t_j4

\* the velocity generate_steps samples for step n of a segment
StepVelocity(segment, n) ==
    get_velocity(segment, (n * TotalTime(segment)) \div segment.total_steps)

\* floor(clock_hz * (distance / N) / v(t_n)) as a u32
NominalInterval(segment, n) ==
    interval_ticks(StepVelocity(segment, n), segment.distance, segment.total_steps)

\* C32: when generate_steps expands an unshaped segment, the command of each
\* step n carries interval_ticks = floor(clock_hz * (distance/N) / v(t_n)),
\* and u16::MAX when v(t_n) is zero.
C32_IntervalIsClockTimesStepLengthOverVelocity ==
    [][(/\ pipe_pc = "generate" /\ pipe_pc' = "start"
        /\ move_queue # <<>> /\ gen_result' = "Ok")
       => LET segment == Head(move_queue)
          IN segment.shaper = <<>> =>
               \A n \in 1..(Len(enqueued') - Len(enqueued)) :
                  LET emitted == enqueued'[Len(enqueued) + n].interval_ticks
                  IN IF StepVelocity(segment, n) <= 0
                     THEN emitted = U16_MAX
                     ELSE NominalInterval(segment, n) = U32(emitted)]_vars

\* the events the first loop of the input shaping path schedules for a
\* segment, in the order of the pushes
ScheduledEvents(segment) ==
    schedule_steps(segment, segment.shaper[1], TotalTime(segment), 1,
                   [i \in Axes |-> 0], U32(0), <<>>).heap

\* the running sums of the intervals of a sequence of commands, as u32
RECURSIVE RunningTicks(_, _, _)
RunningTicks(cmds, k, acc) ==
    IF k > Len(cmds) THEN acc
    ELSE LET prev == IF acc = <<>> THEN U32(0) ELSE acc[Len(acc)]
         IN RunningTicks(cmds, k + 1,
                Append(acc, saturating_add(prev, U32(cmds[k].interval_ticks))))

\* tick is the k-th smallest time of the events
IsKthTick(events, k, tick) ==
    /\ Cardinality({j \in 1..Len(events) : u32_lt(events[j].time, tick)}) <= k - 1
    /\ Cardinality({j \in 1..Len(events) : ~u32_lt(tick, events[j].time)}) >= k

\* C33: when generate_steps expands a shaped segment, the commands come out
\* in non-decreasing order of their scheduled tick and each interval is the
\* difference to the previously emitted event: the running sum of the
\* intervals up to the k-th command is the k-th smallest scheduled tick.
C33_ShapedIntervalsAreTickDeltas ==
    [][(/\ pipe_pc = "generate" /\ pipe_pc' = "start"
        /\ move_queue # <<>> /\ Head(move_queue).shaper # <<>>
        /\ gen_result' = "Ok")
       => \A events \in {ScheduledEvents(Head(move_queue))} :
          \A ticks \in {RunningTicks(SubSeq(enqueued', Len(enqueued) + 1,
                                            Len(enqueued')), 1, <<>>)} :
             /\ Len(ticks) = Len(events)
             /\ \A k \in 1..Len(ticks) : IsKthTick(events, k, ticks[k])]_vars

\* C34: a shaper of type None is the single impulse at offset 0, and
\* generate_steps expands a segment carrying it into the same commands (same
\* masks, same intervals, same result) as the segment with no shaper.
C34_NoneShaperIsIdentity ==
    [][(/\ pipe_pc = "generate" /\ pipe_pc' = "start"
        /\ move_queue # <<>> /\ Head(move_queue).shaper # <<>>
        /\ Head(move_queue).shaper[1].shaper_type = "None")
       => /\ Head(move_queue).shaper[1].num_impulses = 1
          /\ Head(move_queue).shaper[1].impulses = <<0>>
          /\ \A r \in {generate_steps(
                            <<[Head(move_queue) EXCEPT !.shaper = <<>>]>>,
                            command_queue,
                            Len(enqueued) + 1 - Len(command_queue))} :
                /\ gen_result' = r.result
                /\ command_queue' = r.queue]_vars

(***************************************************************************)
(* SpecPositions: the controller with counters that have run up to the     *)
(* i32 bounds (the state after 2^31 - 1 pulses in one direction with the   *)
(* queue drained), fed commands whose masks also carry bits above the      *)
(* controller's steppers                                                   *)
(***************************************************************************)
MaxPositionCommands == 2    \* commands enqueued in a run of SpecPositions

\* the counters a run starts from
PositionStarts ==
    {[i \in Steppers |-> 0],
     [i \in Steppers |-> IF i = 0 THEN I32_MAX ELSE IF i = 1 THEN I32_MIN ELSE 0],
     [i \in Steppers |-> IF i = 0 THEN I32_MIN ELSE I32_MAX - 1]}

\* the masks of the commands: axes 1 and 2; only bits above the steppers;
\* axis 0 and the bits above; forward on axes 0 and 1; forward everywhere
PositionStepperMasks == {6, 248, 249}
PositionDirectionMasks == {0, 3, 255}

InitPositions ==
    /\ StepperIdle
    /\ positions \in PositionStarts
    /\ InitPlanner /\ InitSafety /\ InitHeater
    /\ InitParser /\ InitCodec /\ InitRegistry

PositionsEnqueue ==
    /\ Len(enqueued) < MaxPositionCommands
    /\ \E m \in PositionStepperMasks, d \in PositionDirectionMasks :
          Enqueue(m, d, 1000)
    /\ UNCHANGED <<planner_vars, safety_vars, heater_vars>>
    /\ UNCHANGED proto_vars

PositionsStart ==
    /\ starts < 1
    /\ start
    /\ UNCHANGED <<planner_vars, safety_vars, heater_vars>>
    /\ UNCHANGED proto_vars

PositionsInterrupt ==
    /\ on_timer_interrupt
    /\ UNCHANGED <<planner_vars, safety_vars, heater_vars>>
    /\ UNCHANGED proto_vars

NextPositions == PositionsEnqueue \/ PositionsStart \/ PositionsInterrupt

SpecPositions == InitPositions /\ [][NextPositions]_vars

\* the counter p moved by one step in direction d (+1 or -1), modulo 2^32
StepWrapped(p, d) ==
    IF d = 1 /\ p = I32_MAX THEN I32_MIN
    ELSE IF d = -1 /\ p = I32_MIN THEN I32_MAX
    ELSE p + d

\* C35: an interrupt that executes a command moves the counter of each axis
\* i < N whose stepper_mask bit is set by +1 when its direction_mask bit is
\* set and by -1 when it is clear, wrapping at the i32 bounds; the counters
\* of the other axes are unchanged and mask bits at or above N change
\* nothing (there are exactly N counters).
C35_PositionFollowsMasks ==
    [][(Len(pulses') = Len(pulses) + 1) =>
          LET c == next_command[1]
          IN /\ DOMAIN positions' = 0..(NumSteppers - 1)
             /\ \A i \in 0..(NumSteppers - 1) :
                   positions'[i] =
                       IF (c.stepper_mask \div Pow2(i)) % 2 = 1
                       THEN IF (c.direction_mask \div Pow2(i)) % 2 = 1
                            THEN StepWrapped(positions[i], 1)
                            ELSE StepWrapped(positions[i], -1)
                       ELSE positions[i]]_vars

\* C35 witness: a command with bits above the steppers and direction 255
\* has wrapped axis 0 from i32::MAX to i32::MIN, after a command for axes 1
\* and 2 with direction 0 wrapped axis 1 from i32::MIN to i32::MAX and took
\* axis 2 to -1.
C35_Witness ==
    /\ Len(pulses) = 2
    /\ pulses[1].cmd.stepper_mask = 6 /\ pulses[1].cmd.direction_mask = 0
    /\ pulses[2].cmd.stepper_mask = 249 /\ pulses[2].cmd.direction_mask = 255
    /\ positions[0] = I32_MIN
    /\ positions[1] = I32_MAX
    /\ positions[2] = -1

C37_QueueFullLeavesPlannerUnchanged ==
    [][(plan_call'.op = "plan_move" /\ plan_call'.result = "QueueFull"
        /\ plan_call'.plan_moves = plan_call.plan_moves + 1)
           => UNCHANGED <<current_position, lookahead_queue, move_queue>>]_vars

(***************************************************************************)
(* Further claims about the interrupt (Spec)                               *)
(***************************************************************************)
\* C38: while the timer is stopped (an interrupt found nothing more to
\* stage) any step other than start() dequeues nothing, emits no pulse and
\* leaves the timer stopped with nothing staged, also when the producer
\* has enqueued commands in the meantime.
C38_NoRestartAfterUnderrun ==
    [][(timer.stopped /\ starts' = starts) =>
          /\ dequeued' = dequeued
          /\ pulses' = pulses
          /\ step_port' = step_port
          /\ positions' = positions
          /\ next_command' = <<>>
          /\ timer'.stopped]_vars

\* C38 witness: after an underrun the producer enqueued a command, and an
\* interrupt that came then executed nothing: the command is still in the
\* queue and the timer is stopped.
C38_Witness ==
    /\ timer.stopped
    /\ starts = 1
    /\ pulses # <<>>
    /\ last_call.op = "isr"
    /\ last_call.executed = <<>>
    /\ command_queue # <<>>
    /\ Len(enqueued) > Len(dequeued)
    /\ Len(dequeued) = Len(pulses)

(***************************************************************************)
(* SpecRunaway: a loop that calls check_thermal_state for heater 0 and     *)
(* then waits for its period, while the temperature rises by RunawayRise   *)
(* degrees from one check to the next: faster than max_rate at every       *)
(* period of RunawayPeriods. As in heater_task, the loop makes no further  *)
(* check once the emergency stop is active (a check that returns an error  *)
(* sets it): from then on each iteration only waits for the ticker.        *)
(***************************************************************************)
RunawayRise == 20                   \* degrees Celsius between two checks
RunawayPeriods == {50, 100, 200}    \* milliseconds between two checks

\* one iteration: the check at the present time, then the wait
RunawayIteration ==
    /\ ~is_emergency_stop_active(emergency_stop_active)
    /\ \E d \in RunawayPeriods :
          LET temp == IF last_check[0].time < 0 THEN initial_temp
                      ELSE last_check[0].temp + RunawayRise
              r == check_thermal_state(thermal_monitors, emergency_stop_active,
                                       0, temp, now)
          IN /\ thermal_monitors' = r.monitors
             /\ emergency_stop_active' = r.flag
             /\ safety_call' = SafetyCall("check_thermal_state", 0, temp,
                                          r.result, emergency_stop_active,
                                          last_check[0])
             /\ last_check' = [last_check EXCEPT ![0] = [time |-> now, temp |-> temp]]
             /\ now' = now + d
    /\ UNCHANGED last_check_in
    /\ UNCHANGED <<stepper_vars, planner_vars, heater_vars>>
    /\ UNCHANGED proto_vars

NextRunaway == RunawayIteration

\* the loop keeps running: its ticker fires again after every iteration
SpecRunaway == Init /\ [][NextRunaway]_vars /\ WF_vars(NextRunaway)

\* C39: when the temperature keeps rising faster than max_rate, some check
\* returns ThermalRunaway, whatever the periods between the checks.
C39_RunawayDetectedAtAnyPeriod ==
    <>(safety_call.result = "ThermalRunaway")

(***************************************************************************)
(* Further claims about Parser::parse (SpecParser)                         *)
(***************************************************************************)
\* C40: every parse of a non-empty buffer that returns an error or a message
\* returns with it a count of at least 1 and at most the length of the
\* buffer, so the caller's loop advances and stays within its buffer.
C40_ParseCountStaysInBuffer ==
    [][(Len(parse_log') = Len(parse_log) + 1 /\ rx_buffer # <<>>) =>
          LET r == parse_log'[Len(parse_log')]
          IN r.kind \in {"Message", "Err"} =>
                 (r.n >= 1 /\ r.n <= Len(rx_buffer))]_vars

====
